---- MODULE Spec2Model ----
(***************************************************************************)
(* Gupshup: the realtime synchronisation and membership engine.            *)
(*                                                                         *)
(* Server side: the route handlers (message send, message edit, chat       *)
(* create, add-member, remove-member, set-name, chat page bootstrap) over  *)
(* the Redis store and the Pusher broker.  Every handler is cut at its     *)
(* awaits: one action runs from one resumption to the next await.          *)
(* Client side: the Messages / ChatInput pair (optimistic send,            *)
(* reconciliation, retry, edit) and the sidebar (ChatsList with its        *)
(* SidebarChatList) under the events of the user's channel.                *)
(***************************************************************************)
EXTENDS Integers, Sequences, FiniteSets, TLC

(***************************************************************************)
(* Bounds of the model.                                                    *)
(***************************************************************************)
MaxCommits == 2     \* requests let through to their writes in one behaviour
MaxFaults == 1      \* store / broker / network faults injected
MaxTicks == 2       \* clock ticks
TickMs == 1000      \* what one tick adds to Date.now()
MaxDups == 1        \* redeliveries by the at-least-once broker
MaxSends == 2       \* client sends (retries included)
MaxInFlight == 2    \* server requests in flight at once
MaxPosting == 1     \* requests of the conversation page in flight at once
MaxSaves == 2       \* edits saved on the conversation page

(***************************************************************************)
(* Program constants.                                                      *)
(***************************************************************************)
ReconcileWindowMs == 2000   \* Math.abs(msg.timestamp - message.timestamp) < 2000
SENTINEL == "Direct message"

Users == {"u1", "u2", "u3"}
Undefined == "undefined"    \* what a missing array element / field reads as
None == "none"

ImplicitIds == {"u1--u2", "u2--u1", "u2--u3"}
NanoChatIds == {"c" \o ToString(n) : n \in 1..(MaxCommits + MaxFaults)}
AllChatIds == ImplicitIds \cup NanoChatIds

Texts == {"hi", "yo"}

\* Names as the request bodies carry them; None is a missing / null name.
Names == {None, "", " ", "Study", " Study ", SENTINEL}

VARIABLES
    chats,        \* chat:{id}            chat id -> entity (partial function)
    userChats,    \* user:{id}:chats      user -> set of chat ids
    friends,      \* user:{id}:friends    user -> set of user ids
    msgLog,       \* chat:{id}:messages   chat id -> sorted set of messages
    channels,     \* broker: channel name -> events published, in order
    reqs,         \* server requests in flight, by slot
    clock,        \* Date.now()
    nextId,       \* nanoid(): ids handed out so far
    commits,      \* requests that have written to the store so far
    faults,       \* faults injected so far
    messages,     \* Messages component: the displayed list, newest first
    cursor,       \* Messages component: events of its channel delivered so far
    dups,         \* redeliveries made so far
    lastDelivered,\* the event handed to messageHandler last
    responses,    \* HTTP responses on their way to ChatInput.sendMessage
    nsent,        \* ChatInput: sends made so far (each draws a nanoid)
    sends,        \* history: every sendMessage call, with the id of the
                  \* canonical message its request built (None before that)
    sidebar,      \* ChatsList and its SidebarChatList in one user's browser
    editor,       \* Messages component: the edit mode and the saves under way
    socket        \* the browser's pusherClient and the components that use it

serverVars == <<chats, userChats, friends, msgLog, channels, reqs, clock,
                nextId, commits, faults>>
clientVars == <<messages, cursor, dups, lastDelivered, responses, nsent, sends,
                sidebar, editor, socket>>
vars == <<serverVars, clientVars>>
storeVars == <<chats, userChats, friends, msgLog>>
\* what a server step never touches on the client
viewVars == <<messages, cursor, dups, lastDelivered, responses, nsent, sidebar,
              editor, socket>>

Slots == 1..MaxInFlight
PageSlots == {i \in Slots : i <= MaxPosting}

(***************************************************************************)
(* Data: src/types/db.d.ts                                                 *)
(***************************************************************************)
Chat(id, name, memberIds, createdAt) ==
    [id |-> id, name |-> name, memberIds |-> memberIds, createdAt |-> createdAt]

Message(id, chatId, senderId, text, timestamp) ==
    [id |-> id, chatId |-> chatId, senderId |-> senderId, text |-> text,
     timestamp |-> timestamp]

NullChat == Chat(None, "", <<>>, 0)
NullMessage == Message(None, None, None, "", 0)

Range(s) == {s[k] : k \in DOMAIN s}
\* A membership test that lets everybody through.
includesEverybody(s, x) == TRUE

includes(s, x) == x \in Range(s)
filter(s, Keep(_)) == SelectSeq(s, Keep)
some(s, P(_)) == \E k \in DOMAIN s : P(s[k])
\* 0 stands for -1: the list is indexed from 1
findIndex(s, P(_)) ==
    IF some(s, P) THEN CHOOSE k \in DOMAIN s : P(s[k]) /\ \A j \in 1..(k - 1) : ~P(s[j])
    ELSE 0
map(s, F(_)) == [k \in DOMAIN s |-> F(s[k])]
abs(x) == IF x < 0 THEN -x ELSE x

\* chatId.split("--"): the first two elements of the split
split(chatId) ==
    IF \E p \in Users \X Users : p[1] \o "--" \o p[2] = chatId
    THEN CHOOSE p \in Users \X Users : p[1] \o "--" \o p[2] = chatId
    ELSE <<chatId, Undefined>>

\* isIndividualChat with a wrong member count.
isIndividualChatOfThree(chat) ==
    Len(chat.memberIds) = 3 /\ chat.name = SENTINEL

\* remove-member/route.ts 59: the chat is an individual chat
isIndividualChat(chat) ==
    Len(chat.memberIds) = 2 /\ chat.name = SENTINEL

(***************************************************************************)
(* Broker: pusherServer.trigger(toPusherKey(...), event, payload)          *)
(***************************************************************************)
\* toPusherKey replaces every ":" of the key by "__"
ChatChannel(chatId) == "chat__" \o chatId
UserChatsChannel(userId) == "user__" \o userId \o "__chats"
Channels == {ChatChannel(c) : c \in AllChatIds}
            \cup {UserChatsChannel(u) : u \in Users}

Event(name, chat, message, memberId) ==
    [event |-> name, chat |-> chat, message |-> message, memberId |-> memberId]

NoEvent == Event("none", NullChat, NullMessage, None)

Trigger(channel, ev) == [channel |-> channel, ev |-> ev]

\* The events of a batch of triggers that went to one channel, in order.
EventsOn(batch, channel) ==
    LET sel == SelectSeq(batch, LAMBDA t : t.channel = channel)
    IN  [k \in 1..Len(sel) |-> sel[k].ev]

Published(chn, batch) ==
    [c \in DOMAIN chn |-> chn[c] \o EventsOn(batch, c)]

(***************************************************************************)
(* Requests                                                                *)
(***************************************************************************)
IdleReq ==
    [kind |-> "idle", pc |-> "idle", seq |-> 0, user |-> None,
     chatId |-> None, memberId |-> None, memberIds |-> <<>>, name |-> "",
     text |-> "", messageId |-> None, chat |-> NullChat,
     message |-> NullMessage, original |-> NullMessage, pend |-> {},
     wrote |-> FALSE,
     pubFailed |-> FALSE, tempId |-> None, solo |-> TRUE, boot |-> FALSE,
     dirty |-> FALSE, acc |-> FALSE, ops |-> <<>>, isGroupChat |-> FALSE,
     isTwoPersonChat |-> FALSE, status |-> 0, quota |-> FALSE]

InFlight == {i \in Slots : reqs[i].kind # "idle"}
FreeSlot(i) == reqs[i].kind = "idle" /\ \A j \in Slots : j < i => reqs[j].kind # "idle"
\* The requests that passed their checks and have not written yet.
Accepted == {i \in Slots : /\ reqs[i].acc /\ ~reqs[i].dirty
                           /\ reqs[i].pc \notin {"idle", "done", "held"}}
CanAccept == commits + Cardinality(Accepted) < MaxCommits
\* Once the writing requests are used up, only the behaviours without a fault
\* are followed further (by requests that are turned down or only read).
CanStart == commits < MaxCommits \/ faults = 0
CanFault == faults < MaxFaults

\* A request arrives: the requests already running are no longer alone.
Arrive(i, r) ==
    /\ CanStart
    /\ FreeSlot(i)
    /\ reqs' = [j \in Slots |->
                  IF j = i
                  THEN [r EXCEPT !.solo = (InFlight = {})]
                  ELSE IF reqs[j].kind = "idle" THEN reqs[j]
                       ELSE [reqs[j] EXCEPT !.solo = FALSE]]

\* The handler goes on to its next await.
Continue(i, r) == reqs' = [reqs EXCEPT ![i] = r]

\* The handler has passed its checks and goes on to its writes; once the
\* writing requests are used up it is held there and followed no further.
Accept(i, r) ==
    IF CanAccept THEN Continue(i, [r EXCEPT !.acc = TRUE])
    ELSE Continue(i, [r EXCEPT !.pc = "held"])

\* The handler returns a Response.
Respond(i, r, status, quota) ==
    reqs' = [reqs EXCEPT ![i] = [r EXCEPT !.pc = "done", !.status = status,
                                          !.quota = quota]]

\* An await of the store or the broker throws: the catch block answers 500.
Throw(i) ==
    /\ CanFault
    /\ faults' = faults + 1
    /\ Respond(i, reqs[i], 500, FALSE)

\* The first store write of a request counts it among the commits.
Committed(r) == IF r.dirty THEN commits ELSE commits + 1

\* The response leaves the server; a client that awaits it gets it later.
Close(i) ==
    /\ reqs[i].pc = "done"
    /\ reqs[i].pend = {}
    /\ reqs' = [reqs EXCEPT ![i] = IdleReq]
    /\ responses' = IF reqs[i].tempId # None
                       \/ (reqs[i].kind = "edit" /\ reqs[i].seq # 0)
                    THEN responses \cup {[seq |-> reqs[i].seq,
                                          tempId |-> reqs[i].tempId,
                                          status |-> reqs[i].status,
                                          quota |-> reqs[i].quota]}
                    ELSE responses
    /\ UNCHANGED <<storeVars, channels, clock, nextId, commits, faults,
                   messages, cursor, dups, lastDelivered, nsent, sends, sidebar,
                   editor, socket>>

NoFault == UNCHANGED faults

(***************************************************************************)
(* POST /api/message/send                                                  *)
(*   "send":       src/components/Icons.tsx 21-187 (store, then publish)   *)
(*   "sendLegacy": src/unnamed/part_001 12-127 (publish, then store)       *)
(* The two handlers are the same text up to messageValidator.parse.        *)
(***************************************************************************)
SendKinds == {"send", "sendLegacy"}

\* z.object({id, chatId, senderId, text: z.string(), timestamp}).parse:
\* every well-typed message passes, the empty text included.
messageValidator(m) == m

MessageSendArrive(i, kind, user, chatId, text, tempId) ==
    /\ Arrive(i, [IdleReq EXCEPT !.kind = kind, !.pc = "getChat", !.user = user,
                                 !.chatId = chatId, !.text = text,
                                 !.tempId = tempId])
    /\ UNCHANGED <<storeVars, channels, clock, nextId, commits, faults>>

\* getServerSession, then fetchRedis("get", `chat:${chatId}`) and the checks
\* that follow it.
MessageSendGetChat(i) ==
    LET r == reqs[i]
        ids == split(r.chatId)
        userId1 == ids[1]
        userId2 == ids[2]
    IN  /\ r.kind \in SendKinds /\ r.pc = "getChat"
        /\ UNCHANGED <<storeVars, channels, clock, nextId, commits, viewVars, sends>>
        /\ \/ /\ r.user = None
              /\ NoFault
              /\ Respond(i, r, 401, FALSE)
           \/ /\ r.user # None
              /\ Throw(i)
           \/ /\ r.user # None
              /\ NoFault
              /\ IF r.chatId \notin DOMAIN chats
                 THEN IF r.user # userId1 /\ r.user # userId2
                      THEN Respond(i, r, 401, FALSE)
                      ELSE Continue(i, [r EXCEPT !.pc = "getFriends"])
                 ELSE IF ~includes(chats[r.chatId].memberIds, r.user)
                      THEN Respond(i, r, 401, FALSE)
                      ELSE Accept(i, [r EXCEPT !.pc = "getSender",
                                               !.chat = chats[r.chatId]])

\* fetchRedis("smembers", `user:${senderId}:friends`) and the friendship check
MessageSendGetFriends(i) ==
    LET r == reqs[i]
        ids == split(r.chatId)
        userId1 == ids[1]
        userId2 == ids[2]
        otherParticipantId == IF r.user = userId1 THEN userId2 ELSE userId1
        isFriend == otherParticipantId \in friends[r.user]
    IN  /\ r.kind \in SendKinds /\ r.pc = "getFriends"
        /\ UNCHANGED <<storeVars, channels, clock, nextId, commits, viewVars, sends>>
        /\ \/ Throw(i)
           \/ /\ NoFault
              /\ IF ~isFriend
                 THEN Respond(i, r, 401, FALSE)
                 ELSE Accept(i, [r EXCEPT !.pc = "setChat",
                        !.chat = Chat(r.chatId, SENTINEL, <<userId1, userId2>>, 0)])

\* db.set(`chat:${chat.id}`, JSON.stringify(chat))
MessageSendSetChat(i) ==
    LET r == reqs[i]
    IN  /\ r.kind \in SendKinds /\ r.pc = "setChat"
        /\ UNCHANGED <<channels, clock, nextId, viewVars, sends>>
        /\ \/ Throw(i) /\ UNCHANGED <<storeVars, commits>>
           \/ /\ NoFault
              /\ commits' = Committed(r)
              /\ chats' = [c \in DOMAIN chats \cup {r.chat.id} |->
                             IF c = r.chat.id THEN r.chat ELSE chats[c]]
              /\ UNCHANGED <<userChats, friends, msgLog>>
              /\ Continue(i, [r EXCEPT !.pc = "sadd1", !.boot = TRUE,
                                         !.dirty = TRUE])

\* db.sadd(`user:${userId1}:chats`, chat.id)
MessageSendSadd1(i) ==
    LET r == reqs[i]
        userId1 == split(r.chatId)[1]
    IN  /\ r.kind \in SendKinds /\ r.pc = "sadd1"
        /\ UNCHANGED <<channels, clock, nextId, viewVars, sends>>
        /\ \/ Throw(i) /\ UNCHANGED <<storeVars, commits>>
           \/ /\ NoFault
              /\ commits' = Committed(r)
              /\ userChats' = [userChats EXCEPT ![userId1] = @ \cup {r.chat.id}]
              /\ UNCHANGED <<chats, friends, msgLog>>
              /\ Continue(i, [r EXCEPT !.pc = "sadd2"])

\* MessageSendSadd2 that registers the chat against the first user again.
MessageSendSadd2First(i) ==
    LET r == reqs[i]
        userId1 == split(r.chatId)[1]
    IN  /\ r.kind \in SendKinds /\ r.pc = "sadd2"
        /\ UNCHANGED <<channels, clock, nextId, viewVars, sends>>
        /\ \/ Throw(i) /\ UNCHANGED <<storeVars, commits>>
           \/ /\ NoFault
              /\ commits' = Committed(r)
              /\ userChats' = [userChats EXCEPT ![userId1] = @ \cup {r.chat.id}]
              /\ UNCHANGED <<chats, friends, msgLog>>
              /\ Continue(i, [r EXCEPT !.pc = "getSender"])

\* db.sadd(`user:${userId2}:chats`, chat.id)
MessageSendSadd2(i) ==
    LET r == reqs[i]
        userId2 == split(r.chatId)[2]
    IN  /\ r.kind \in SendKinds /\ r.pc = "sadd2"
        /\ UNCHANGED <<channels, clock, nextId, viewVars, sends>>
        /\ \/ Throw(i) /\ UNCHANGED <<storeVars, commits>>
           \/ /\ NoFault
              /\ commits' = Committed(r)
              /\ userChats' = [userChats EXCEPT ![userId2] = @ \cup {r.chat.id}]
              /\ UNCHANGED <<chats, friends, msgLog>>
              /\ Continue(i, [r EXCEPT !.pc = "getSender"])

\* fetchRedis("get", `user:${senderId}`), Date.now(), nanoid(), parse
MessageSendBuild(i) ==
    LET r == reqs[i]
        id == "m" \o ToString(nextId + 1)
        messageData == Message(id, r.chat.id, r.user, r.text, clock)
        message == messageValidator(messageData)
    IN  /\ r.kind \in SendKinds /\ r.pc = "getSender"
        /\ UNCHANGED <<storeVars, channels, clock, commits, viewVars>>
        /\ \/ Throw(i) /\ UNCHANGED <<nextId, sends>>
           \/ /\ NoFault
              /\ nextId' = nextId + 1
              /\ sends' = {IF s.seq = r.seq THEN [s EXCEPT !.id = id] ELSE s :
                            s \in sends}
              /\ Continue(i, [r EXCEPT !.message = message,
                                !.pc = IF r.kind = "send" THEN "zadd" ELSE "trigger"])

\* memberIds.filter((id) => id !== senderId)
otherMemberIds(chat, senderId) == filter(chat.memberIds, LAMBDA id : id # senderId)

IncomingMessage(message) == Event("incoming-message", NullChat, message, None)
\* {...message, senderImg, senderName}: the sender fields are fixed per user
NewMessage(message) == Event("new_message", NullChat, message, None)

\* The sidebar notifications of one message: one trigger per other member,
\* of which those at the indexes in ok get through.
NewMessageTriggers(chat, message, ok) ==
    LET others == otherMemberIds(chat, message.senderId)
        idx == SelectSeq([k \in 1..Len(others) |-> k], LAMBDA k : k \in ok)
    IN  [k \in 1..Len(idx) |->
           Trigger(UserChatsChannel(others[idx[k]]), NewMessage(message))]

\* db.zadd(`chat:${chat.id}:messages`, {score: timestamp, member})
zadd(log, chatId, message) == [log EXCEPT ![chatId] = @ \cup {message}]

\* Icons.tsx 98-102: "Save message to Redis first"
MessageSendZadd(i) ==
    LET r == reqs[i]
    IN  /\ r.kind = "send" /\ r.pc = "zadd"
        /\ UNCHANGED <<channels, clock, nextId, viewVars, sends>>
        /\ \/ Throw(i) /\ UNCHANGED <<storeVars, commits>>
           \/ /\ NoFault
              /\ commits' = Committed(r)
              /\ msgLog' = zadd(msgLog, r.chat.id, r.message)
              /\ UNCHANGED <<chats, userChats, friends>>
              /\ Continue(i, [r EXCEPT !.pc = "trigger", !.wrote = TRUE,
                                         !.dirty = TRUE])

\* MessageSendTrigger that takes the message back when the broker fails.
MessageSendTriggerUndo(i) ==
    LET r == reqs[i]
    IN  /\ r.kind = "send" /\ r.pc = "trigger"
        /\ UNCHANGED <<chats, userChats, friends, clock, nextId, commits,
                       viewVars, sends>>
        /\ \/ /\ NoFault
              /\ channels' = Published(channels,
                    <<Trigger(ChatChannel(r.chat.id), IncomingMessage(r.message))>>)
              /\ UNCHANGED msgLog
              /\ Continue(i, [r EXCEPT !.pc = "notify"])
           \/ /\ CanFault
              /\ faults' = faults + 1
              /\ UNCHANGED channels
              /\ msgLog' = [msgLog EXCEPT ![r.chat.id] = @ \ {r.message}]
              /\ Respond(i, [r EXCEPT !.pubFailed = TRUE], 200, FALSE)

\* Icons.tsx 115-149: the conversation channel; a failure is caught
MessageSendTrigger(i) ==
    LET r == reqs[i]
    IN  /\ r.kind = "send" /\ r.pc = "trigger"
        /\ UNCHANGED <<storeVars, clock, nextId, commits, viewVars, sends>>
        /\ \/ /\ NoFault
              /\ channels' = Published(channels,
                    <<Trigger(ChatChannel(r.chat.id), IncomingMessage(r.message))>>)
              /\ Continue(i, [r EXCEPT !.pc = "notify"])
           \/ \* quota exceeded (4004): answered 200 with pusherQuotaExceeded
              /\ CanFault
              /\ faults' = faults + 1
              /\ UNCHANGED channels
              /\ Respond(i, [r EXCEPT !.pubFailed = TRUE], 200, TRUE)
           \/ \* any other broker error: pusherSuccess stays false, "OK"
              /\ CanFault
              /\ faults' = faults + 1
              /\ UNCHANGED channels
              /\ Respond(i, [r EXCEPT !.pubFailed = TRUE], 200, FALSE)

\* Icons.tsx 151-179: the sidebar notifications, each with its own catch
MessageSendNotify(i) ==
    LET r == reqs[i]
        n == Len(otherMemberIds(r.chat, r.user))
    IN  /\ r.kind = "send" /\ r.pc = "notify"
        /\ UNCHANGED <<storeVars, clock, nextId, commits, viewVars, sends>>
        /\ \E ok \in SUBSET (1..n) :
              /\ IF ok = 1..n THEN NoFault
                 ELSE CanFault /\ faults' = faults + 1
              /\ channels' = Published(channels,
                                NewMessageTriggers(r.chat, r.message, ok))
              /\ Respond(i, [r EXCEPT !.pubFailed = (ok # 1..n)], 200, FALSE)

\* part_001 89-94: the conversation channel is notified before the store
LegacySendTrigger(i) ==
    LET r == reqs[i]
    IN  /\ r.kind = "sendLegacy" /\ r.pc = "trigger"
        /\ UNCHANGED <<storeVars, clock, nextId, commits, viewVars, sends>>
        /\ \/ /\ NoFault
              /\ channels' = Published(channels,
                    <<Trigger(ChatChannel(r.chat.id), IncomingMessage(r.message))>>)
              /\ Continue(i, [r EXCEPT !.pc = "notify"])
           \/ /\ UNCHANGED channels
              /\ CanFault
              /\ faults' = faults + 1
              /\ Respond(i, [r EXCEPT !.pubFailed = TRUE], 500, FALSE)

\* part_001 96-111: Promise.all of the sidebar notifications, no catch
LegacySendNotify(i) ==
    LET r == reqs[i]
        n == Len(otherMemberIds(r.chat, r.user))
    IN  /\ r.kind = "sendLegacy" /\ r.pc = "notify"
        /\ UNCHANGED <<storeVars, clock, nextId, commits, viewVars, sends>>
        /\ \E ok \in SUBSET (1..n) :
              /\ channels' = Published(channels,
                                NewMessageTriggers(r.chat, r.message, ok))
              /\ IF ok = 1..n
                 THEN NoFault /\ Continue(i, [r EXCEPT !.pc = "zadd"])
                 ELSE /\ CanFault
                      /\ faults' = faults + 1
                      /\ Respond(i, [r EXCEPT !.pubFailed = TRUE],
                                 500, FALSE)

\* part_001 113-119: "all valid, send the message"
LegacySendZadd(i) ==
    LET r == reqs[i]
    IN  /\ r.kind = "sendLegacy" /\ r.pc = "zadd"
        /\ UNCHANGED <<channels, clock, nextId, viewVars, sends>>
        /\ \/ Throw(i) /\ UNCHANGED <<storeVars, commits>>
           \/ /\ NoFault
              /\ commits' = Committed(r)
              /\ msgLog' = zadd(msgLog, r.chat.id, r.message)
              /\ UNCHANGED <<chats, userChats, friends>>
              /\ Respond(i, [r EXCEPT !.wrote = TRUE, !.dirty = TRUE], 200, FALSE)

(***************************************************************************)
(* Promise.all([...]): the operations are started together and settle one  *)
(* by one in any order; the first rejection rejects the whole, the others   *)
(* still run to their end.                                                  *)
(***************************************************************************)
Op(op, user, chat, channel, ev) ==
    [op |-> op, user |-> user, chat |-> chat, channel |-> channel, ev |-> ev]

\* db.set(`chat:${chat.id}`, JSON.stringify(chat))
DbSet(chat) == Op("set", None, chat, None, NoEvent)
\* db.sadd(`user:${user}:chats`, chat.id)
DbSadd(user, chat) == Op("sadd", user, chat, None, NoEvent)
\* db.srem(`user:${user}:chats`, chat.id)
DbSrem(user, chat) == Op("srem", user, chat, None, NoEvent)
\* pusherServer.trigger(channel, ev.event, payload)
Pub(channel, ev) == Op("trigger", None, NullChat, channel, ev)

set(store, chat) ==
    [c \in DOMAIN store \cup {chat.id} |-> IF c = chat.id THEN chat ELSE store[c]]

\* `user:${undefined}:chats` is a key of its own, outside the users' indexes
sadd(index, user, chatId) ==
    IF user \in DOMAIN index THEN [index EXCEPT ![user] = @ \cup {chatId}]
    ELSE index

srem(index, user, chatId) ==
    IF user \in DOMAIN index THEN [index EXCEPT ![user] = @ \ {chatId}]
    ELSE index

\* String.prototype.trim on the names of the model
trim(name) ==
    CASE name = " " -> ""
      [] name = " Study " -> "Study"
      [] name = " yo " -> "yo"
      [] OTHER -> name

\* One operation of a Promise.all settles: fulfilled (its effect is in the
\* store or on the broker) or rejected (no effect).  When the last one is
\* fulfilled the handler goes on: to the Promise.all of nextOps if it is in
\* its first one (pc "sadds"), to its Response with status otherwise.
Settle(i, k, nextOps, status) ==
    LET r == reqs[i]
        o == r.ops[k]
        rest == r.pend \ {k}
        isWrite == o.op # "trigger"
    IN  /\ r.pc \in {"sadds", "all", "done"}
        /\ k \in r.pend
        /\ UNCHANGED <<friends, msgLog, clock, nextId, viewVars, sends>>
        /\ \/ \* fulfilled
              /\ NoFault
              /\ chats' = IF o.op = "set" THEN set(chats, o.chat) ELSE chats
              /\ userChats' = CASE o.op = "sadd" -> sadd(userChats, o.user, o.chat.id)
                                [] o.op = "srem" -> srem(userChats, o.user, o.chat.id)
                                [] OTHER -> userChats
              /\ channels' = IF o.op = "trigger"
                             THEN Published(channels, <<Trigger(o.channel, o.ev)>>)
                             ELSE channels
              /\ commits' = IF isWrite THEN Committed(r) ELSE commits
              /\ LET r1 == [r EXCEPT !.pend = rest,
                                     !.dirty = @ \/ isWrite,
                                     !.wrote = @ \/ o.op = "set"]
                 IN  CASE rest = {} /\ r.pc = "sadds" ->
                            Continue(i, [r1 EXCEPT !.pc = "all", !.ops = nextOps,
                                                   !.pend = DOMAIN nextOps])
                       [] rest = {} /\ r.pc = "all" ->
                            Respond(i, r1, status, FALSE)
                       [] OTHER -> Continue(i, r1)
           \/ \* rejected: the first rejection is what the handler's catch sees
              /\ CanFault
              /\ faults' = faults + 1
              /\ UNCHANGED <<chats, userChats, channels, commits>>
              /\ LET r1 == [r EXCEPT !.pend = rest,
                                     !.pubFailed = @ \/ ~isWrite]
                 IN  IF r.pc # "done"
                     THEN Respond(i, r1, 500, FALSE)
                     ELSE Continue(i, r1)

(***************************************************************************)
(* POST /api/chat/create: app/(dashboard)/dashboard/chat/[chatId]/page.tsx  *)
(* 185-309                                                                  *)
(***************************************************************************)
ChatCreated(chat) == Event("chat_created", chat, NullMessage, None)
AddedToChat(chat) == Event("added_to_chat", chat, NullMessage, None)
ChatUpdated(chat) == Event("chat_updated", chat, NullMessage, None)

\* memberIds.find((id) => id !== requesterId)
otherId(memberIds, requesterId) ==
    LET k == findIndex(memberIds, LAMBDA id : id # requesterId)
    IN  IF k = 0 THEN Undefined ELSE memberIds[k]

\* name?.trim() ?? "", and the sentinel for an unnamed pair
finalName(name, memberIds) ==
    LET trimmedName == IF name = None THEN "" ELSE trim(name)
    IN  IF Len(memberIds) = 2 /\ trimmedName = "" THEN SENTINEL ELSE trimmedName

\* nanoid(), Date.now() and the entity
NewChat(r) ==
    Chat("c" \o ToString(nextId + 1), finalName(r.name, r.memberIds),
         r.memberIds, clock)

\* Triggers that tell the creator too that they were added.
ChatCreateTriggersToAll(chat, requesterId) ==
    [k \in DOMAIN chat.memberIds |->
        Pub(UserChatsChannel(chat.memberIds[k]), AddedToChat(chat))]
    \o [k \in DOMAIN chat.memberIds |->
          Pub(UserChatsChannel(chat.memberIds[k]), ChatCreated(chat))]

\* The three groups of triggers of the final Promise.all
ChatCreateTriggers(chat, requesterId) ==
    LET others == otherMemberIds(chat, requesterId)
    IN  [k \in DOMAIN others |-> Pub(UserChatsChannel(others[k]), AddedToChat(chat))]
        \o [k \in DOMAIN others |-> Pub(UserChatsChannel(others[k]), ChatCreated(chat))]
        \o <<Pub(UserChatsChannel(requesterId), ChatCreated(chat))>>

ChatCreateArrive(i, user, memberIds, name) ==
    /\ Arrive(i, [IdleReq EXCEPT !.kind = "create", !.pc = "start", !.user = user,
                                 !.memberIds = memberIds, !.name = name])
    /\ UNCHANGED <<storeVars, channels, clock, nextId, commits, faults>>

\* A create that asks for no name check at all, for comparison
groupNameMissingNever(memberIds, trimmedName) == FALSE

\* memberIds.length > 2 && trimmedName.length === 0
groupNameMissing(memberIds, trimmedName) ==
    Len(memberIds) > 2 /\ trimmedName = ""

\* getServerSession and the checks up to the first read of the store
ChatCreateCheck(i) ==
    LET r == reqs[i]
        trimmedName == IF r.name = None THEN "" ELSE trim(r.name)
    IN  /\ r.kind = "create" /\ r.pc = "start"
        /\ UNCHANGED <<storeVars, channels, clock, commits, viewVars, sends>>
        /\ \/ Throw(i) /\ UNCHANGED nextId
           \/ /\ NoFault
              /\ CASE Len(r.memberIds) < 1 ->
                        Respond(i, r, 400, FALSE) /\ UNCHANGED nextId
                   [] Len(r.memberIds) >= 1 /\ ~includes(r.memberIds, r.user) ->
                        Respond(i, r, 400, FALSE) /\ UNCHANGED nextId
                   [] includes(r.memberIds, r.user)
                        /\ groupNameMissing(r.memberIds, trimmedName) ->
                        Respond(i, r, 400, FALSE) /\ UNCHANGED nextId
                   [] includes(r.memberIds, r.user) /\ Len(r.memberIds) = 2
                        /\ otherId(r.memberIds, r.user) # Undefined ->
                        Continue(i, [r EXCEPT !.pc = "getFriends"])
                        /\ UNCHANGED nextId
                   [] OTHER ->
                        /\ nextId' = nextId + 1
                        /\ Accept(i, [r EXCEPT !.pc = "setChat",
                                               !.chat = NewChat(r)])

\* fetchRedis("smembers", `user:${requesterId}:friends`)
ChatCreateGetFriends(i) ==
    LET r == reqs[i]
    IN  /\ r.kind = "create" /\ r.pc = "getFriends"
        /\ UNCHANGED <<storeVars, channels, clock, commits, viewVars, sends>>
        /\ \/ Throw(i) /\ UNCHANGED nextId
           \/ /\ NoFault
              /\ IF otherId(r.memberIds, r.user) \notin friends[r.user]
                 THEN Respond(i, r, 401, FALSE) /\ UNCHANGED nextId
                 ELSE /\ nextId' = nextId + 1
                      /\ Accept(i, [r EXCEPT !.pc = "setChat",
                                             !.chat = NewChat(r)])

\* await db.set(`chat:${chat.id}`, ...), then the Promise.all of the sadds
ChatCreateSet(i) ==
    LET r == reqs[i]
        sadds == [k \in DOMAIN r.memberIds |-> DbSadd(r.memberIds[k], r.chat)]
    IN  /\ r.kind = "create" /\ r.pc = "setChat"
        /\ UNCHANGED <<channels, clock, nextId, viewVars, sends>>
        /\ \/ Throw(i) /\ UNCHANGED <<storeVars, commits>>
           \/ /\ NoFault
              /\ commits' = Committed(r)
              /\ chats' = set(chats, r.chat)
              /\ UNCHANGED <<userChats, friends, msgLog>>
              /\ Continue(i, [r EXCEPT !.pc = "sadds", !.wrote = TRUE,
                                       !.dirty = TRUE, !.ops = sadds,
                                       !.pend = DOMAIN sadds])

\* the sadds, then the triggers, then 201
ChatCreateSettle(i, k) ==
    /\ reqs[i].kind = "create"
    /\ Settle(i, k, ChatCreateTriggers(reqs[i].chat, reqs[i].user), 201)

(***************************************************************************)
(* POST /api/chat/add-member: app/api/friends/deny/route.ts 63-181          *)
(***************************************************************************)
MemberAdded(chat, memberId) == Event("member_added", chat, NullMessage, memberId)

ChatUpdatedTriggers(memberIds, chat) ==
    [k \in DOMAIN memberIds |-> Pub(UserChatsChannel(memberIds[k]), ChatUpdated(chat))]

\* The operations of the Promise.all, in the order of the array
AddMemberOps(chat, updatedChat, memberId) ==
    <<DbSet(updatedChat),
      DbSadd(memberId, updatedChat),
      Pub(UserChatsChannel(memberId), AddedToChat(updatedChat)),
      Pub(ChatChannel(chat.id), MemberAdded(updatedChat, memberId))>>
    \o ChatUpdatedTriggers(chat.memberIds, updatedChat)

\* The name check as its comment words it: more than 2 members.
nameRequiredOverTwo(chat) ==
    Len(chat.memberIds) > 2 /\ trim(chat.name) = ""

\* deny/route.ts 110-113: a name is required before more members are added
nameRequired(chat) ==
    Len(chat.memberIds) >= 2 /\ trim(chat.name) = ""

AddMemberArrive(i, user, chatId, memberId) ==
    /\ Arrive(i, [IdleReq EXCEPT !.kind = "add", !.pc = "getChat", !.user = user,
                                 !.chatId = chatId, !.memberId = memberId])
    /\ UNCHANGED <<storeVars, channels, clock, nextId, commits, faults>>

\* fetchRedis("get", `chat:${chatId}`) and the checks on the chat
AddMemberGetChat(i) ==
    LET r == reqs[i]
        chat == chats[r.chatId]
    IN  /\ r.kind = "add" /\ r.pc = "getChat"
        /\ UNCHANGED <<storeVars, channels, clock, nextId, commits, viewVars, sends>>
        /\ \/ /\ r.user = None
              /\ NoFault
              /\ Respond(i, r, 401, FALSE)
           \/ /\ r.user # None
              /\ Throw(i)
           \/ /\ r.user # None
              /\ NoFault
              /\ CASE r.chatId \notin DOMAIN chats -> Respond(i, r, 404, FALSE)
                   [] r.chatId \in DOMAIN chats
                        /\ ~includes(chat.memberIds, r.user) ->
                        Respond(i, r, 401, FALSE)
                   [] r.chatId \in DOMAIN chats
                        /\ includes(chat.memberIds, r.user)
                        /\ includes(chat.memberIds, r.memberId) ->
                        Respond(i, r, 400, FALSE)
                   [] r.chatId \in DOMAIN chats
                        /\ includes(chat.memberIds, r.user)
                        /\ ~includes(chat.memberIds, r.memberId)
                        /\ nameRequired(chat) ->
                        Respond(i, [r EXCEPT !.chat = chat], 400, FALSE)
                   [] OTHER ->
                        Accept(i, [r EXCEPT !.pc = "getMember", !.chat = chat])

\* fetchRedis("get", `user:${memberId}`), then the Promise.all is started
AddMemberGetMember(i) ==
    LET r == reqs[i]
        updatedChat == [r.chat EXCEPT !.memberIds = Append(@, r.memberId)]
        ops == AddMemberOps(r.chat, updatedChat, r.memberId)
    IN  /\ r.kind = "add" /\ r.pc = "getMember"
        /\ UNCHANGED <<storeVars, channels, clock, nextId, commits, viewVars, sends>>
        /\ \/ Throw(i)
           \/ /\ NoFault
              /\ Continue(i, [r EXCEPT !.pc = "all", !.ops = ops,
                                       !.pend = DOMAIN ops])

AddMemberSettle(i, k) ==
    /\ reqs[i].kind = "add"
    /\ Settle(i, k, <<>>, 200)

(***************************************************************************)
(* POST /api/chat/remove-member: app/api/chat/remove-member/route.ts        *)
(***************************************************************************)
RemovedFromChat(chat) == Event("removed_from_chat", chat, NullMessage, None)
MemberRemoved(chat, memberId) == Event("member_removed", chat, NullMessage, memberId)

RemoveMemberOps(chat, updatedChat, memberId) ==
    <<DbSet(updatedChat),
      DbSrem(memberId, chat),
      \* the payload carries chatId and chatName only
      Pub(UserChatsChannel(memberId),
          RemovedFromChat(Chat(chat.id, chat.name, <<>>, 0))),
      Pub(ChatChannel(chat.id), MemberRemoved(updatedChat, memberId))>>
    \o ChatUpdatedTriggers(updatedChat.memberIds, updatedChat)

RemoveMemberArrive(i, user, chatId, memberId) ==
    /\ Arrive(i, [IdleReq EXCEPT !.kind = "remove", !.pc = "getChat", !.user = user,
                                 !.chatId = chatId, !.memberId = memberId])
    /\ UNCHANGED <<storeVars, channels, clock, nextId, commits, faults>>

\* The checks that keep the one-member and the self-removal guard out.
removeRefusedUnguarded(chat, requesterId, memberId) ==
    \/ isIndividualChat(chat)
    \/ ~includes(chat.memberIds, memberId)

\* The four 400 answers of a member's request: a direct message, a chat of
\* one member, a target that is not in the chat, the requester themself.
removeRefused(chat, requesterId, memberId) ==
    \/ isIndividualChat(chat)
    \/ Len(chat.memberIds) <= 1
    \/ ~includes(chat.memberIds, memberId)
    \/ memberId = requesterId

\* fetchRedis("get", `chat:${chatId}`), the checks, and the Promise.all started
RemoveMemberGetChat(i) ==
    LET r == reqs[i]
        chat == chats[r.chatId]
        updatedChat == [chat EXCEPT !.memberIds =
                           filter(@, LAMBDA id : id # r.memberId)]
        ops == RemoveMemberOps(chat, updatedChat, r.memberId)
    IN  /\ r.kind = "remove" /\ r.pc = "getChat"
        /\ UNCHANGED <<storeVars, channels, clock, nextId, commits, viewVars, sends>>
        /\ \/ /\ r.user = None
              /\ NoFault
              /\ Respond(i, r, 401, FALSE)
           \/ /\ r.user # None
              /\ Throw(i)
           \/ /\ r.user # None
              /\ NoFault
              /\ CASE r.chatId \notin DOMAIN chats -> Respond(i, r, 404, FALSE)
                   [] r.chatId \in DOMAIN chats
                        /\ ~includes(chat.memberIds, r.user) ->
                        Respond(i, r, 401, FALSE)
                   [] r.chatId \in DOMAIN chats
                        /\ includes(chat.memberIds, r.user)
                        /\ removeRefused(chat, r.user, r.memberId) ->
                        Respond(i, [r EXCEPT !.chat = chat], 400, FALSE)
                   [] OTHER ->
                        Accept(i, [r EXCEPT !.pc = "all", !.chat = chat,
                                            !.ops = ops, !.pend = DOMAIN ops])

RemoveMemberSettle(i, k) ==
    /\ reqs[i].kind = "remove"
    /\ Settle(i, k, <<>>, 200)

(***************************************************************************)
(* POST /api/chat/set-name: app/api/chat/set-name/route.ts                  *)
(***************************************************************************)
ChatNameUpdated(chat) == Event("chat_name_updated", chat, NullMessage, None)

SetNameOps(chat, updatedChat) ==
    <<DbSet(updatedChat),
      Pub(ChatChannel(chat.id), ChatNameUpdated(updatedChat))>>
    \o ChatUpdatedTriggers(chat.memberIds, updatedChat)

SetNameArrive(i, user, chatId, name) ==
    /\ Arrive(i, [IdleReq EXCEPT !.kind = "rename", !.pc = "getChat", !.user = user,
                                 !.chatId = chatId, !.name = name])
    /\ UNCHANGED <<storeVars, channels, clock, nextId, commits, faults>>

\* name?.trim(), fetchRedis("get", `chat:${chatId}`), the checks, and the
\* Promise.all started
SetNameGetChat(i) ==
    LET r == reqs[i]
        trimmedName == IF r.name = None THEN "" ELSE trim(r.name)
        chat == chats[r.chatId]
        updatedChat == [chat EXCEPT !.name = trimmedName]
        ops == SetNameOps(chat, updatedChat)
    IN  /\ r.kind = "rename" /\ r.pc = "getChat"
        /\ UNCHANGED <<storeVars, channels, clock, nextId, commits, viewVars, sends>>
        /\ \/ /\ r.user = None
              /\ NoFault
              /\ Respond(i, r, 401, FALSE)
           \/ /\ r.user # None /\ trimmedName = ""
              /\ NoFault
              /\ Respond(i, r, 400, FALSE)
           \/ /\ r.user # None /\ trimmedName # ""
              /\ Throw(i)
           \/ /\ r.user # None /\ trimmedName # ""
              /\ NoFault
              /\ CASE r.chatId \notin DOMAIN chats -> Respond(i, r, 404, FALSE)
                   [] r.chatId \in DOMAIN chats
                        /\ ~includes(chat.memberIds, r.user) ->
                        Respond(i, r, 401, FALSE)
                   [] OTHER ->
                        Accept(i, [r EXCEPT !.pc = "all", !.chat = chat,
                                            !.ops = ops, !.pend = DOMAIN ops])

SetNameSettle(i, k) ==
    /\ reqs[i].kind = "rename"
    /\ Settle(i, k, <<>>, 200)

(***************************************************************************)
(* POST /api/message/edit: app/api/message/edit/route.ts                    *)
(***************************************************************************)
MessageEdited(message) == Event("message_edited", NullChat, message, None)

\* A removal that leaves the log as it is.
zremNothing(log, chatId, message) == log

\* db.zrem(`chat:${chatId}:messages`, member)
zrem(log, chatId, message) == [log EXCEPT ![chatId] = @ \ {message}]

MessageEditArrive(i, user, chatId, messageId, text) ==
    /\ Arrive(i, [IdleReq EXCEPT !.kind = "edit", !.pc = "getChat", !.user = user,
                                 !.chatId = chatId, !.messageId = messageId,
                                 !.text = text])
    /\ UNCHANGED <<storeVars, channels, clock, nextId, commits, faults>>

\* text.trim(), fetchRedis("get", `chat:${chatId}`) and the membership check
MessageEditGetChat(i) ==
    LET r == reqs[i]
        trimmedText == trim(r.text)
    IN  /\ r.kind = "edit" /\ r.pc = "getChat"
        /\ UNCHANGED <<storeVars, channels, clock, nextId, commits, viewVars, sends>>
        /\ \/ /\ r.user = None
              /\ NoFault
              /\ Respond(i, r, 401, FALSE)
           \/ /\ r.user # None /\ trimmedText = ""
              /\ NoFault
              /\ Respond(i, r, 400, FALSE)
           \/ /\ r.user # None /\ trimmedText # ""
              /\ Throw(i)
           \/ /\ r.user # None /\ trimmedText # ""
              /\ NoFault
              /\ CASE r.chatId \notin DOMAIN chats -> Respond(i, r, 404, FALSE)
                   [] r.chatId \in DOMAIN chats
                        /\ ~includes(chats[r.chatId].memberIds, r.user) ->
                        Respond(i, r, 401, FALSE)
                   [] OTHER ->
                        Continue(i, [r EXCEPT !.pc = "zrange",
                                              !.chat = chats[r.chatId]])

\* fetchRedis("zrange", ...), the message looked up, the sender check
MessageEditZrange(i) ==
    LET r == reqs[i]
        found == {m \in msgLog[r.chatId] : m.id = r.messageId}
        originalMessage == CHOOSE m \in found : TRUE
    IN  /\ r.kind = "edit" /\ r.pc = "zrange"
        /\ UNCHANGED <<storeVars, channels, clock, nextId, commits, viewVars, sends>>
        /\ \/ Throw(i)
           \/ /\ NoFault
              /\ CASE found = {} -> Respond(i, r, 404, FALSE)
                   [] found # {} /\ originalMessage.senderId # r.user ->
                        Respond(i, r, 403, FALSE)
                   [] OTHER ->
                        Accept(i, [r EXCEPT !.pc = "zrem",
                                            !.message = originalMessage,
                                            !.original = originalMessage])

\* await db.zrem(`chat:${chatId}:messages`, messages[messageIndex])
MessageEditZrem(i) ==
    LET r == reqs[i]
    IN  /\ r.kind = "edit" /\ r.pc = "zrem"
        /\ UNCHANGED <<channels, clock, nextId, viewVars, sends>>
        /\ \/ Throw(i) /\ UNCHANGED <<storeVars, commits>>
           \/ /\ NoFault
              /\ commits' = Committed(r)
              /\ msgLog' = zrem(msgLog, r.chatId, r.message)
              /\ UNCHANGED <<chats, userChats, friends>>
              /\ Continue(i, [r EXCEPT !.pc = "zadd", !.dirty = TRUE])

\* await db.zadd(`chat:${chatId}:messages`, {score, member: validatedMessage})
MessageEditZadd(i) ==
    LET r == reqs[i]
        trimmedText == trim(r.text)
        validatedMessage == messageValidator([r.message EXCEPT !.text = trimmedText])
    IN  /\ r.kind = "edit" /\ r.pc = "zadd"
        /\ UNCHANGED <<channels, clock, nextId, viewVars, sends>>
        /\ \/ Throw(i) /\ UNCHANGED <<storeVars, commits>>
           \/ /\ NoFault
              /\ commits' = Committed(r)
              /\ msgLog' = zadd(msgLog, r.chatId, validatedMessage)
              /\ UNCHANGED <<chats, userChats, friends>>
              /\ Continue(i, [r EXCEPT !.pc = "trigger", !.wrote = TRUE,
                                       !.message = validatedMessage])

\* the conversation channel, then the sender is read and the Promise.all of
\* the sidebar notifications is started
MessageEditTrigger(i) ==
    LET r == reqs[i]
        others == otherMemberIds(r.chat, r.user)
        ops == [k \in DOMAIN others |->
                  Pub(UserChatsChannel(others[k]), MessageEdited(r.message))]
    IN  /\ r.kind = "edit" /\ r.pc = "trigger"
        /\ UNCHANGED <<storeVars, clock, nextId, commits, viewVars, sends>>
        /\ \/ /\ NoFault
              /\ channels' = Published(channels,
                    <<Trigger(ChatChannel(r.chatId), MessageEdited(r.message))>>)
              /\ IF ops = <<>>
                 THEN Respond(i, r, 200, FALSE)
                 ELSE Continue(i, [r EXCEPT !.pc = "all", !.ops = ops,
                                            !.pend = DOMAIN ops])
           \/ /\ CanFault
              /\ faults' = faults + 1
              /\ UNCHANGED channels
              /\ Respond(i, [r EXCEPT !.pubFailed = TRUE], 500, FALSE)

MessageEditSettle(i, k) ==
    /\ reqs[i].kind = "edit"
    /\ Settle(i, k, <<>>, 200)

(***************************************************************************)
(* The chat page: app/(dashboard)/dashboard/chat/[chatId]/page.tsx 39-173   *)
(***************************************************************************)
\* page.tsx 92
isGroupChat(chat) ==
    Len(chat.memberIds) > 2 \/ (Len(chat.memberIds) >= 1 /\ chat.name # SENTINEL)

\* page.tsx 93
isTwoPersonChat(chat) ==
    Len(chat.memberIds) = 2 /\ chat.name = SENTINEL

PageArrive(i, user, chatId) ==
    /\ Arrive(i, [IdleReq EXCEPT !.kind = "page", !.pc = "getChat", !.user = user,
                                 !.chatId = chatId])
    /\ UNCHANGED <<storeVars, channels, clock, nextId, commits, faults>>

\* fetchRedis("get", `chat:${chatId}`): an unknown chat is bootstrapped from
\* its id, a known one is checked for membership
PageGetChat(i) ==
    LET r == reqs[i]
        ids == split(r.chatId)
        userId1 == ids[1]
        userId2 == ids[2]
    IN  /\ r.kind = "page" /\ r.pc = "getChat"
        /\ UNCHANGED <<storeVars, channels, clock, nextId, commits, viewVars, sends>>
        /\ \/ Throw(i)
           \/ /\ NoFault
              /\ IF r.chatId \notin DOMAIN chats
                 THEN IF r.user # userId1 /\ r.user # userId2
                      THEN Respond(i, r, 404, FALSE)
                      ELSE Accept(i, [r EXCEPT !.pc = "setChat",
                             !.chat = Chat(r.chatId, SENTINEL, <<userId1, userId2>>, 0)])
                 ELSE IF ~includes(chats[r.chatId].memberIds, r.user)
                      THEN Respond(i, r, 404, FALSE)
                      ELSE Continue(i, [r EXCEPT !.pc = "render",
                                                 !.chat = chats[r.chatId]])

\* page.tsx 70: await db.set(`chat:${chat.id}`, JSON.stringify(chat))
PageSetChat(i) ==
    LET r == reqs[i]
    IN  /\ r.kind = "page" /\ r.pc = "setChat"
        /\ UNCHANGED <<channels, clock, nextId, viewVars, sends>>
        /\ \/ Throw(i) /\ UNCHANGED <<storeVars, commits>>
           \/ /\ NoFault
              /\ commits' = Committed(r)
              /\ chats' = set(chats, r.chat)
              /\ UNCHANGED <<userChats, friends, msgLog>>
              /\ Continue(i, [r EXCEPT !.pc = "sadd1", !.boot = TRUE,
                                       !.dirty = TRUE])

\* page.tsx 71-72: the two sadds, one after the other
PageSadd(i) ==
    LET r == reqs[i]
        ids == split(r.chatId)
        userId == IF r.pc = "sadd1" THEN ids[1] ELSE ids[2]
    IN  /\ r.kind = "page" /\ r.pc \in {"sadd1", "sadd2"}
        /\ UNCHANGED <<channels, clock, nextId, viewVars, sends>>
        /\ \/ Throw(i) /\ UNCHANGED <<storeVars, commits>>
           \/ /\ NoFault
              /\ commits' = Committed(r)
              /\ userChats' = sadd(userChats, userId, r.chat.id)
              /\ UNCHANGED <<chats, friends, msgLog>>
              /\ Continue(i, [r EXCEPT !.pc = IF r.pc = "sadd1" THEN "sadd2"
                                               ELSE "render"])

\* page.tsx 83-93: the participants are loaded and the chat is classified
PageRender(i) ==
    LET r == reqs[i]
    IN  /\ r.kind = "page" /\ r.pc = "render"
        /\ UNCHANGED <<storeVars, channels, clock, nextId, commits, viewVars, sends>>
        /\ \/ Throw(i)
           \/ /\ NoFault
              /\ Respond(i, [r EXCEPT !.isGroupChat = isGroupChat(r.chat),
                                      !.isTwoPersonChat = isTwoPersonChat(r.chat)],
                         200, FALSE)

(***************************************************************************)
(* Client: Messages (SidebarChatList.tsx 435-998) and ChatInput            *)
(* (Icons.tsx 189-341) of one user on one conversation page.               *)
(***************************************************************************)
Me == "u1"
Peer == "u2"
Here == "u1--u2"

Shown(message, status, tempId) ==
    [id |-> message.id, chatId |-> message.chatId, senderId |-> message.senderId,
     text |-> message.text, timestamp |-> message.timestamp,
     status |-> status, tempId |-> tempId]


\* Messages.handleOptimistic
handleOptimistic(prev, message) ==
    LET messageExists ==
            some(prev, LAMBDA msg : msg.id = message.id \/ msg.tempId = message.tempId)
    IN  IF messageExists THEN prev
        ELSE <<[message EXCEPT !.status = "pending"]>> \o prev

\* Messages.handleStatusUpdate
handleStatusUpdate(prev, messageId, status) ==
    map(prev, LAMBDA msg :
        IF msg.id = messageId \/ msg.tempId = messageId
        THEN [msg EXCEPT !.status = status] ELSE msg)

\* A lookup that never finds a pending record.
optimisticMessageIndexNone(prev, message) == 0

\* The pending record an incoming message replaces.
optimisticMessageIndex(prev, message) ==
    findIndex(prev, LAMBDA msg :
        /\ msg.status = "pending"
        /\ msg.text = message.text
        /\ msg.senderId = message.senderId
        /\ abs(msg.timestamp - message.timestamp) < ReconcileWindowMs
        /\ msg.id # message.id)

\* messageHandler without its "already exists" check.
messageHandlerNoExistsCheck(prev, message, chatId) ==
    IF message.chatId # chatId THEN prev
    ELSE LET k == optimisticMessageIndex(prev, message)
         IN  IF k # 0
             THEN [prev EXCEPT ![k] = Shown(message, "sent", Undefined)]
             ELSE <<Shown(message, "sent", Undefined)>> \o prev

\* Messages.messageHandler, bound to "incoming-message"
messageHandler(prev, message, chatId) ==
    IF message.chatId # chatId THEN prev
    ELSE IF some(prev, LAMBDA msg : msg.id = message.id) THEN prev
    ELSE LET k == optimisticMessageIndex(prev, message)
         IN  IF k # 0
             THEN [prev EXCEPT ![k] = Shown(message, "sent", Undefined)]
             ELSE <<Shown(message, "sent", Undefined)>> \o prev

\* ChatInput.sendMessage up to its await: the optimistic record is shown and
\* the request leaves.
sendMessage(i, retryMessageId, messageText) ==
    LET tempId == IF retryMessageId # None THEN retryMessageId
                  ELSE "t" \o ToString(nsent + 1)
        optimisticMessage ==
            Shown(Message(tempId, Here, Me, messageText, clock), "pending", tempId)
    IN  /\ nsent < MaxSends
        /\ nsent' = nsent + 1
        /\ messages' = handleOptimistic(messages, optimisticMessage)
        /\ Arrive(i, [IdleReq EXCEPT !.kind = "send", !.pc = "getChat", !.user = Me,
                                     !.chatId = Here, !.text = messageText,
                                     !.tempId = tempId, !.seq = nsent + 1])
        /\ sends' = sends \cup {[seq |-> nsent + 1, tempId |-> tempId,
                                  at |-> clock, id |-> None,
                                  retry |-> (retryMessageId # None)]}
        /\ UNCHANGED <<storeVars, channels, clock, nextId, commits, faults,
                       cursor, dups, lastDelivered, responses, sidebar, editor, socket>>

\* The user types a text and posts it: tempId = nanoid()
ChatInputSend(i, text) ==
    sendMessage(i, None, text)

\* The retry button of a failed record of the user: window.retryMessage
retryMessage(i, k) ==
    /\ k \in DOMAIN messages
    /\ messages[k].senderId = Me
    /\ messages[k].status = "failed"
    /\ sendMessage(i, IF messages[k].tempId # Undefined THEN messages[k].tempId
                      ELSE messages[k].id, messages[k].text)

\* A response handler that marks the record sent whatever the answer was.
HttpResponseAlwaysSent(resp) ==
    /\ resp \in responses
    /\ resp.tempId # None
    /\ responses' = responses \ {resp}
    /\ messages' = handleStatusUpdate(messages, resp.tempId, "sent")
    /\ UNCHANGED <<serverVars, cursor, dups, lastDelivered, nsent, sends, sidebar,
                   editor, socket>>

\* ChatInput.sendMessage after its await: the response or the error
HttpResponse(resp) ==
    /\ resp \in responses
    /\ resp.tempId # None
    /\ responses' = responses \ {resp}
    /\ messages' = handleStatusUpdate(messages, resp.tempId,
                      IF resp.status = 200 THEN "sent" ELSE "failed")
    /\ UNCHANGED <<serverVars, cursor, dups, lastDelivered, nsent, sends, sidebar,
                   editor, socket>>

\* Messages.messageEditedHandler, bound to "message_edited": the record is
\* replaced by the payload, which has neither status nor tempId
messageEditedHandler(prev, editedMessage) ==
    map(prev, LAMBDA msg :
        IF msg.id = editedMessage.id THEN Shown(editedMessage, Undefined, Undefined)
        ELSE msg)

\* The handlers that the subscription effect of Messages binds, for the
\* chatId of its closure.
HandleChannelEvent(prev, ev, chatId) ==
    CASE ev.event = "incoming-message" -> messageHandler(prev, ev.message, chatId)
      [] ev.event = "message_edited" -> messageEditedHandler(prev, ev.message)
      [] OTHER -> prev

\* What Messages does with one event of its channel.
OnChannelEvent(prev, ev) == HandleChannelEvent(prev, ev, Here)

\* messageEditedHandler leaves the edit mode when the message being edited
\* is the one that was edited (editingMessageIdRef)
OnChannelEventEditor(ed, ev) ==
    IF ev.event = "message_edited" /\ ed.editingMessageId = ev.message.id
    THEN [ed EXCEPT !.editingMessageId = None, !.editText = "",
                    !.originalMessageText = ""]
    ELSE ed

\* The broker hands over the next event of the conversation channel.
Deliver ==
    LET q == channels[ChatChannel(Here)]
    IN  /\ cursor < Len(q)
        /\ cursor' = cursor + 1
        /\ lastDelivered' = q[cursor + 1]
        /\ messages' = OnChannelEvent(messages, q[cursor + 1])
        /\ editor' = OnChannelEventEditor(editor, q[cursor + 1])
        /\ UNCHANGED <<serverVars, dups, responses, nsent, sends, sidebar, socket>>

\* At-least-once: an event already handed over comes again.
Redeliver(k) ==
    LET q == channels[ChatChannel(Here)]
    IN  /\ dups < MaxDups
        /\ k \in 1..cursor
        /\ dups' = dups + 1
        /\ lastDelivered' = q[k]
        /\ messages' = OnChannelEvent(messages, q[k])
        /\ editor' = OnChannelEventEditor(editor, q[k])
        /\ UNCHANGED <<serverVars, cursor, responses, nsent, sends, sidebar, socket>>

\* Time passes.
Tick ==
    /\ clock < TickMs * (MaxTicks + 1)
    /\ clock' = clock + TickMs
    /\ UNCHANGED <<storeVars, channels, reqs, nextId, commits, faults,
                   clientVars>>

\* The peer posts to the same conversation from another browser.
PeerSend(i, text) ==
    /\ MessageSendArrive(i, "send", Peer, Here, text, None)
    /\ UNCHANGED clientVars

\* The sidebar before the dashboard layout has been rendered in the browser:
\* ChatsList starts in the "chats" view, SidebarChatList with no unseen
\* message.  chats and groups are the props that Layout hands to ChatsList.
Unmounted ==
    [mounted |-> FALSE, chats |-> <<>>, groups |-> <<>>, viewType |-> "chats",
     activeChats |-> <<>>, unseenMessages |-> <<>>, pathname |-> "/dashboard",
     cursor |-> 0]

\* Messages before any edit: editingMessageId null, editText and
\* originalMessageText empty; saves holds, for every handleSaveEdit call that
\* awaits its response, the messageId and the originalText of its closure.
NotEditing ==
    [editingMessageId |-> None, editText |-> "", originalMessageText |-> "",
     nsaved |-> 0, saves |-> {}]

\* The channels the browser of the user subscribes to besides the sidebar's
Elsewhere == "c1"
FriendsChannel == "user__" \o Me \o "__friends"
SocketChannels == {ChatChannel(Here), ChatChannel(Elsewhere), FriendsChannel}

\* pusherClient before any component has used it: connected, no channel,
\* nothing bound; Messages and the friends lists are not mounted.
Unplugged ==
    [connected |-> TRUE,
     subs |-> [c \in SocketChannels |-> "none"],
     binds |-> <<>>,
     page |-> [mounted |-> FALSE, chatId |-> None, effect |-> 0],
     lists |-> {},
     effects |-> 0,
     seen |-> 0,
     calls |-> 0,
     last |-> NoEvent]

FriendsInit ==
    [u \in Users |-> CASE u = "u1" -> {"u2", "u3"}
                       [] u = "u2" -> {"u1"}
                       [] u = "u3" -> {"u1"}]

Init ==
    /\ chats = <<>>
    /\ userChats = [u \in Users |-> {}]
    /\ friends = FriendsInit
    /\ msgLog = [c \in AllChatIds |-> {}]
    /\ channels = [c \in Channels |-> <<>>]
    /\ reqs = [i \in Slots |-> IdleReq]
    /\ clock = TickMs
    /\ nextId = 0
    /\ commits = 0
    /\ faults = 0
    /\ messages = <<>>
    /\ cursor = 0
    /\ dups = 0
    /\ lastDelivered = NoEvent
    /\ responses = {}
    /\ nsent = 0
    /\ sends = {}
    /\ sidebar = Unmounted
    /\ editor = NotEditing
    /\ socket = Unplugged

\* One step of the send handler that serves the conversation page.
SendStep(i) ==
    \/ MessageSendGetChat(i)
    \/ MessageSendGetFriends(i)
    \/ MessageSendSetChat(i)
    \/ MessageSendSadd1(i)
    \/ MessageSendSadd2(i)
    \/ MessageSendBuild(i)
    \/ MessageSendZadd(i)
    \/ MessageSendTrigger(i)
    \/ MessageSendNotify(i)

NextMsg ==
    \/ \E i \in PageSlots, text \in Texts : ChatInputSend(i, text)
    \/ \E i \in PageSlots, k \in 1..MaxSends : retryMessage(i, k)
    \/ \E i \in PageSlots, text \in Texts : PeerSend(i, text)
    \/ \E i \in PageSlots : SendStep(i)
    \/ \E i \in PageSlots : Close(i)
    \/ \E resp \in responses : HttpResponse(resp)
    \/ Deliver
    \/ \E k \in 1..MaxCommits : Redeliver(k)
    \/ Tick

SpecMsg == Init /\ [][NextMsg]_vars

(***************************************************************************)
(* Client: the edit flow of Messages (SidebarChatList.tsx 784-854) on the  *)
(* conversation page, against the edit route.                              *)
(***************************************************************************)
\* Messages.handleStartEdit: the pencil of an own record that has not failed
handleStartEdit(k) ==
    /\ k \in DOMAIN messages
    /\ messages[k].senderId = Me
    /\ messages[k].status # "failed"
    /\ editor' = [editor EXCEPT !.editingMessageId = messages[k].id,
                                !.editText = messages[k].text,
                                !.originalMessageText = messages[k].text]
    /\ UNCHANGED <<serverVars, messages, cursor, dups, lastDelivered, responses,
                   nsent, sends, sidebar, socket>>

\* The edit field: onChange sets editText
EditFieldChange(text) ==
    /\ editor.editingMessageId # None
    /\ editor' = [editor EXCEPT !.editText = text]
    /\ UNCHANGED <<serverVars, messages, cursor, dups, lastDelivered, responses,
                   nsent, sends, sidebar, socket>>

\* Messages.handleCancelEdit
handleCancelEdit ==
    /\ editor.editingMessageId # None
    /\ editor' = [editor EXCEPT !.editingMessageId = None, !.editText = "",
                                !.originalMessageText = ""]
    /\ UNCHANGED <<serverVars, messages, cursor, dups, lastDelivered, responses,
                   nsent, sends, sidebar, socket>>

\* The optimistic update of handleSaveEdit and the restore of its catch block
setText(prev, messageId, text) ==
    map(prev, LAMBDA msg :
        IF msg.id = messageId THEN [msg EXCEPT !.text = text] ELSE msg)

\* Messages.handleSaveEdit up to its await: the text is shown at once, the
\* edit mode is left and the request leaves.  An empty text is refused with a
\* toast and nothing changes.
handleSaveEdit(i) ==
    LET messageId == editor.editingMessageId
        trimmedText == trim(editor.editText)
        originalText == editor.originalMessageText
    IN  /\ messageId # None
        /\ trimmedText # ""
        /\ editor.nsaved < MaxSaves
        /\ messages' = setText(messages, messageId, trimmedText)
        /\ editor' = [editingMessageId |-> None, editText |-> "",
                      originalMessageText |-> "", nsaved |-> editor.nsaved + 1,
                      saves |-> editor.saves \cup
                                  {[seq |-> editor.nsaved + 1,
                                    messageId |-> messageId,
                                    originalText |-> originalText]}]
        /\ Arrive(i, [IdleReq EXCEPT !.kind = "edit", !.pc = "getChat",
                                     !.user = Me, !.chatId = Here,
                                     !.messageId = messageId,
                                     !.text = trimmedText,
                                     !.seq = editor.nsaved + 1])
        /\ UNCHANGED <<storeVars, channels, clock, nextId, commits, faults,
                       cursor, dups, lastDelivered, responses, nsent, sends,
                       sidebar, socket>>

\* Messages.handleSaveEdit after its await: a success only shows a toast, the
\* catch block puts the original text back and reopens the edit mode.
EditResponse(resp) ==
    /\ resp \in responses
    /\ resp.tempId = None
    /\ responses' = responses \ {resp}
    /\ LET save == CHOOSE v \in editor.saves : v.seq = resp.seq
           rest == editor.saves \ {save}
       IN  IF resp.status = 200
           THEN /\ editor' = [editor EXCEPT !.saves = rest]
                /\ UNCHANGED messages
           ELSE /\ messages' = setText(messages, save.messageId, save.originalText)
                /\ editor' = [editor EXCEPT
                                 !.editingMessageId = save.messageId,
                                 !.editText = save.originalText,
                                 !.originalMessageText = save.originalText,
                                 !.saves = rest]
    /\ UNCHANGED <<serverVars, cursor, dups, lastDelivered, nsent, sends, sidebar, socket>>

\* One step of the edit handler that serves the conversation page.
EditStep(i) ==
    \/ MessageEditGetChat(i)
    \/ MessageEditZrange(i)
    \/ MessageEditZrem(i)
    \/ MessageEditZadd(i)
    \/ MessageEditTrigger(i)
    \/ \E k \in 1..Cardinality(Users) : MessageEditSettle(i, k)

\* The conversation u1--u2 with one message of each user, as the chat page
\* hands it to Messages: initialMessages newest first, every record "sent".
SeedOwn == Message("m1", Here, Me, "hi", TickMs)
SeedPeer == Message("m2", Here, Peer, "yo", TickMs + 1)

InitEdit ==
    /\ chats = set(<<>>, Chat(Here, SENTINEL, <<Me, Peer>>, 0))
    /\ userChats = sadd(sadd([u \in Users |-> {}], Me, Here), Peer, Here)
    /\ friends = FriendsInit
    /\ msgLog = [c \in AllChatIds |->
                   IF c = Here THEN {SeedOwn, SeedPeer} ELSE {}]
    /\ channels = [c \in Channels |-> <<>>]
    /\ reqs = [i \in Slots |-> IdleReq]
    /\ clock = TickMs + 1
    /\ nextId = 2
    /\ commits = 0
    /\ faults = 0
    /\ messages = <<Shown(SeedPeer, "sent", Undefined),
                    Shown(SeedOwn, "sent", Undefined)>>
    /\ cursor = 0
    /\ dups = 0
    /\ lastDelivered = NoEvent
    /\ responses = {}
    /\ nsent = 0
    /\ sends = {}
    /\ sidebar = Unmounted
    /\ editor = NotEditing
    /\ socket = Unplugged

\* One step of the send handler on a conversation that exists already.
EditSendStep(i) ==
    \/ MessageSendGetChat(i)
    \/ MessageSendBuild(i)
    \/ MessageSendZadd(i)
    \/ MessageSendTrigger(i)
    \/ MessageSendNotify(i)

\* What the user types into the edit field and into the input
EditFieldTexts == {" yo ", " "}
EditSendTexts == {"hi"}

NextEdit ==
    \/ \E k \in 1..(MaxSends + 2) : handleStartEdit(k)
    \/ \E text \in EditFieldTexts : EditFieldChange(text)
    \/ handleCancelEdit
    \/ \E i \in PageSlots : handleSaveEdit(i)
    \/ \E resp \in responses : EditResponse(resp)
    \/ \E i \in PageSlots : EditStep(i)
    \/ \E i \in PageSlots, text \in EditSendTexts : ChatInputSend(i, text)
    \/ \E i \in PageSlots : EditSendStep(i)
    \/ \E i \in PageSlots : Close(i)
    \/ \E resp \in responses : HttpResponse(resp)
    \/ Deliver

SpecEdit == InitEdit /\ [][NextEdit]_vars

(***************************************************************************)
(* The dashboard layout: components/CreateGroupModal.tsx 368-500.  The two  *)
(* lists it builds for a user, read from a store no request is writing to.  *)
(***************************************************************************)
\* latestMessageTimestamp !== null
hasMessages(chatId) == msgLog[chatId] # {}

\* smembers `user:${id}:chats`, each chat read with its latest message
LayoutChats(user) == {c \in userChats[user] : c \in DOMAIN chats}

\* "Your chats"
individualChats(user) ==
    {c \in LayoutChats(user) :
        /\ hasMessages(c)
        /\ Len(chats[c].memberIds) = 2
        /\ chats[c].name = SENTINEL}

\* "Groups"
groupChats(user) ==
    {c \in LayoutChats(user) :
        /\ ~(Len(chats[c].memberIds) = 2 /\ chats[c].name = SENTINEL)
        /\ \/ Len(chats[c].memberIds) > 2
           \/ (Len(chats[c].memberIds) >= 1 /\ chats[c].name # SENTINEL)}

(***************************************************************************)
(* The server under the requests of its users                               *)
(***************************************************************************)
\* The bodies of the chat create requests: requester, memberIds, name
CreateBodies ==
    {<<"u1", <<"u1">>, None>>,
     <<"u1", <<"u1">>, SENTINEL>>,
     <<"u1", <<"u1", "u2">>, None>>,
     <<"u1", <<"u1", "u2">>, " Study ">>,
     <<"u1", <<"u1", "u1">>, None>>,
     <<"u1", <<"u1", "u2", "u3">>, " Study ">>,
     <<"u1", <<"u1", "u2", "u3">>, " ">>,
     <<"u2", <<"u2", "u3">>, None>>,
     <<"u3", <<"u1", "u2">>, None>>,
     <<"u1", <<>>, None>>}
RenameNames == {" ", " Study ", SENTINEL}
SendTexts == {"hi", ""}
LegacyTexts == {"hi"}
EditTexts == {" yo ", " "}

\* The chats a request may name: those of the store and one that is not there.
TargetIds == DOMAIN chats \cup {"u1--u2"}
\* The message ids an edit may name: those of the chat and one that is not there.
MessageIds(chatId) == {m.id : m \in msgLog[chatId]} \cup {"m0"}

SrvSlots == {i \in Slots : i <= MaxPosting}

\* What getServerSession can give a request: a signed-in user, or no session
Sessions == Users \cup {None}

SrvArrive(i) ==
    \/ \E body \in CreateBodies :
          ChatCreateArrive(i, body[1], body[2], body[3])
    \/ \E user \in Sessions, chatId \in TargetIds, memberId \in Users :
          AddMemberArrive(i, user, chatId, memberId)
    \/ \E user \in Sessions, chatId \in TargetIds, memberId \in Users :
          RemoveMemberArrive(i, user, chatId, memberId)
    \/ \E user \in Sessions, chatId \in TargetIds, name \in RenameNames :
          SetNameArrive(i, user, chatId, name)
    \/ \E user \in Sessions, chatId \in TargetIds, text \in EditTexts :
          \E messageId \in MessageIds(chatId) :
             MessageEditArrive(i, user, chatId, messageId, text)
    \/ \E user \in Users, chatId \in DOMAIN chats \cup ImplicitIds :
          PageArrive(i, user, chatId)
    \/ \E user \in Sessions, text \in SendTexts :
          \E chatId \in DOMAIN chats \cup ImplicitIds :
             MessageSendArrive(i, "send", user, chatId, text, None)
    \/ \E user \in Users, text \in LegacyTexts :
          \E chatId \in DOMAIN chats \cup ImplicitIds :
             MessageSendArrive(i, "sendLegacy", user, chatId, text, None)

SrvStep(i) ==
    \/ ChatCreateCheck(i) \/ ChatCreateGetFriends(i) \/ ChatCreateSet(i)
    \/ \E k \in reqs[i].pend : ChatCreateSettle(i, k)
    \/ AddMemberGetChat(i) \/ AddMemberGetMember(i)
    \/ \E k \in reqs[i].pend : AddMemberSettle(i, k)
    \/ RemoveMemberGetChat(i)
    \/ \E k \in reqs[i].pend : RemoveMemberSettle(i, k)
    \/ SetNameGetChat(i)
    \/ \E k \in reqs[i].pend : SetNameSettle(i, k)
    \/ MessageEditGetChat(i) \/ MessageEditZrange(i) \/ MessageEditZrem(i)
    \/ MessageEditZadd(i) \/ MessageEditTrigger(i)
    \/ \E k \in reqs[i].pend : MessageEditSettle(i, k)
    \/ PageGetChat(i) \/ PageSetChat(i) \/ PageSadd(i) \/ PageRender(i)
    \/ SendStep(i)
    \/ LegacySendTrigger(i) \/ LegacySendNotify(i) \/ LegacySendZadd(i)
    \/ Close(i)

NextSrv ==
    \E i \in SrvSlots : (SrvArrive(i) /\ UNCHANGED clientVars) \/ SrvStep(i)

SpecSrv == Init /\ [][NextSrv]_vars

(***************************************************************************)
(* The membership routes with two requests in flight.  The store already   *)
(* holds the group that u1 created with u2 (POST /api/chat/create with     *)
(* memberIds [u1, u2] and name " Study "): its entity, its two index       *)
(* entries and its three events.  Store and broker do not fail here: the   *)
(* faults are used up from the start.                                      *)
(***************************************************************************)
SeedChat == Chat("c1", "Study", <<"u1", "u2">>, TickMs)

InitRace ==
    /\ chats = set(<<>>, SeedChat)
    /\ userChats = sadd(sadd([u \in Users |-> {}], "u1", SeedChat.id),
                        "u2", SeedChat.id)
    /\ friends = FriendsInit
    /\ msgLog = [c \in AllChatIds |-> {}]
    /\ channels = [c \in Channels |->
                     LET ops == ChatCreateTriggers(SeedChat, "u1")
                         sel == SelectSeq(ops, LAMBDA o : o.channel = c)
                     IN  [k \in 1..Len(sel) |-> sel[k].ev]]
    /\ reqs = [i \in Slots |-> IdleReq]
    /\ clock = TickMs
    /\ nextId = 1
    /\ commits = 0
    /\ faults = MaxFaults
    /\ messages = <<>>
    /\ cursor = 0
    /\ dups = 0
    /\ lastDelivered = NoEvent
    /\ responses = {}
    /\ nsent = 0
    /\ sends = {}
    /\ sidebar = Unmounted
    /\ editor = NotEditing
    /\ socket = Unplugged

\* The members of the seeded group, who ask, and the user they may add
RaceUsers == {"u1", "u2"}
RaceNames == {SENTINEL}
RaceBodies == {<<"u1", <<"u1", "u3">>, "Study">>}
RacePages == {<<"u1", "u1--u2">>}

RaceArrive(i) ==
    \/ \E body \in RaceBodies :
          ChatCreateArrive(i, body[1], body[2], body[3])
    \/ \E user \in RaceUsers, chatId \in DOMAIN chats :
          AddMemberArrive(i, user, chatId, "u3")
    \/ \E user \in RaceUsers, chatId \in DOMAIN chats, memberId \in RaceUsers :
          RemoveMemberArrive(i, user, chatId, memberId)
    \/ \E user \in RaceUsers, chatId \in DOMAIN chats, name \in RaceNames :
          SetNameArrive(i, user, chatId, name)
    \/ \E page \in RacePages : PageArrive(i, page[1], page[2])

RaceStep(i) ==
    \/ ChatCreateCheck(i) \/ ChatCreateGetFriends(i) \/ ChatCreateSet(i)
    \/ \E k \in reqs[i].pend : ChatCreateSettle(i, k)
    \/ AddMemberGetChat(i) \/ AddMemberGetMember(i)
    \/ \E k \in reqs[i].pend : AddMemberSettle(i, k)
    \/ RemoveMemberGetChat(i)
    \/ \E k \in reqs[i].pend : RemoveMemberSettle(i, k)
    \/ SetNameGetChat(i)
    \/ \E k \in reqs[i].pend : SetNameSettle(i, k)
    \/ PageGetChat(i) \/ PageSetChat(i) \/ PageSadd(i) \/ PageRender(i)
    \/ Close(i)

NextRace ==
    \E i \in Slots : (RaceArrive(i) /\ UNCHANGED clientVars) \/ RaceStep(i)

SpecRace == InitRace /\ [][NextRace]_vars

(***************************************************************************)
(* The dashboard layout: components/CreateGroupModal.tsx (Layout)           *)
(***************************************************************************)
\* latestMessageTimestamp and createdAt are number | null
NullTs == -1

\* x || 0
orZero(x) == IF x = NullTs \/ x = 0 THEN 0 ELSE x

\* chat.createdAt || null (a chat stored without createdAt has 0 here)
createdAtOrNull(chat) == IF chat.createdAt = 0 THEN NullTs ELSE chat.createdAt

\* zrange(`chat:${chatId}:messages`, -1, -1): the member of the highest score
latestMessageTimestamp(chatId) ==
    IF msgLog[chatId] = {} THEN NullTs
    ELSE CHOOSE t \in {m.timestamp : m \in msgLog[chatId]} :
            \A m \in msgLog[chatId] : m.timestamp <= t

\* participants.find((p) => p.id !== session.user.id) ?? participants[0];
\* the name of a user is their id here
chatPartner(chat, userId) ==
    LET k == findIndex(chat.memberIds, LAMBDA id : id # userId)
    IN  IF k = 0 THEN chat.memberIds[1] ELSE chat.memberIds[k]

LayoutItem(userId, chatId) ==
    LET chat == chats[chatId]
    IN  [chat |-> chat,
         displayName |-> IF Len(chat.memberIds) = 2
                         THEN chatPartner(chat, userId) ELSE chat.name,
         latestMessageTimestamp |-> latestMessageTimestamp(chatId),
         createdAt |-> createdAtOrNull(chat)]

\* The replies smembers may give for a set: its members in any order.
Orders(S) ==
    {f \in [1..Cardinality(S) -> S] : \A j, k \in DOMAIN f : f[j] = f[k] => j = k}

\* chatsWithDisplayNameAndMessages, in the order of the smembers reply
LayoutItems(userId, order) ==
    LET known == SelectSeq(order, LAMBDA c : c \in DOMAIN chats)
    IN  [k \in 1..Len(known) |-> LayoutItem(userId, known[k])]

\* Array.prototype.sort left the items as they came.
sortUnsorted(items, view) == items

\* The value the comparator of a view compares
sortKey(item, view) ==
    IF view = "chats" THEN orZero(item.latestMessageTimestamp)
    ELSE IF orZero(item.latestMessageTimestamp) >= orZero(item.createdAt)
         THEN orZero(item.latestMessageTimestamp)
         ELSE orZero(item.createdAt)

\* Array.prototype.sort((a, b) => timestampB - timestampA): stable, descending
RECURSIVE sort(_, _)
sort(items, view) ==
    IF items = <<>> THEN <<>>
    ELSE LET n == Len(items)
             x == items[n]
             rest == sort(SubSeq(items, 1, n - 1), view)
             ahead == Cardinality({k \in 1..Len(rest) :
                                      sortKey(rest[k], view) >= sortKey(x, view)})
         IN  SubSeq(rest, 1, ahead) \o <<x>> \o SubSeq(rest, ahead + 1, Len(rest))

\* the two props of ChatsList
SidebarItem(item) == [chat |-> item.chat, displayName |-> item.displayName]

individualChatsSorted(items) ==
    LET unsorted == SelectSeq(items, LAMBDA item :
                       /\ item.latestMessageTimestamp # NullTs
                       /\ Len(item.chat.memberIds) = 2
                       /\ item.chat.name = SENTINEL)
        sorted == sort(unsorted, "chats")
    IN  [k \in 1..Len(sorted) |-> SidebarItem(sorted[k])]

groupChatsSorted(items) ==
    LET unsorted == SelectSeq(items, LAMBDA item :
                       /\ ~(Len(item.chat.memberIds) = 2 /\ item.chat.name = SENTINEL)
                       /\ \/ Len(item.chat.memberIds) > 2
                          \/ /\ Len(item.chat.memberIds) >= 1
                             /\ item.chat.name # SENTINEL)
        sorted == sort(unsorted, "groups")
    IN  [k \in 1..Len(sorted) |-> SidebarItem(sorted[k])]

(***************************************************************************)
(* The sidebar: components/ChatsList.tsx and SidebarChatList.tsx            *)
(* (SidebarChatList), in the browser of one user                            *)
(***************************************************************************)
Viewer == "u2"

ChatPath(chatId) == "/dashboard/chat/" \o chatId

\* pathname.endsWith(chatId): no chat id here is the end of another path
endsWith(pathname, chatId) == pathname = ChatPath(chatId)

\* displayedChats of ChatsList
displayedChats(sb, currentView) ==
    IF currentView = "chats" THEN sb.chats ELSE sb.groups

Listed(sb, chatId) ==
    \E k \in 1..Len(sb.activeChats) : sb.activeChats[k].chat.id = chatId

\* A handler for new_message that reads no pathname.
chatHandlerAlwaysNotifies(sb, message) ==
    [sb EXCEPT !.unseenMessages = Append(@, message)]

\* new_message: a placeholder for a chat that is not listed, and the unseen
\* message unless its conversation is open
chatHandler(sb, message) ==
    LET newChat == Chat(message.chatId, SENTINEL, <<Viewer, message.senderId>>, 0)
        shouldNotify == sb.pathname # ChatPath(message.chatId)
    IN  [sb EXCEPT
           !.activeChats =
               IF Listed(sb, message.chatId) \/ sb.viewType = "groups" THEN @
               ELSE Append(@, [chat |-> newChat, displayName |-> message.senderId]),
           !.unseenMessages = IF shouldNotify THEN Append(@, message) ELSE @]

\* A handler that always shows the name of the payload.
chatUpdateHandlerTakesName(sb, data) ==
    [sb EXCEPT !.activeChats =
        [k \in 1..Len(@) |->
           IF @[k].chat.id = data.id
           THEN [chat |-> data, displayName |-> data.name]
           ELSE @[k]]]

\* chat_updated
chatUpdateHandler(sb, data) ==
    [sb EXCEPT !.activeChats =
        [k \in 1..Len(@) |->
           IF @[k].chat.id = data.id
           THEN [chat |-> data,
                 displayName |-> IF isIndividualChat(data)
                                 THEN @[k].displayName ELSE data.name]
           ELSE @[k]]]

\* A handler that appends without looking for the chat in the list.
addedToChatHandlerNoExistsCheck(sb, data) ==
    [sb EXCEPT !.activeChats =
        IF \/ sb.viewType = "chats" /\ ~isIndividualChat(data)
           \/ sb.viewType = "groups" /\ isIndividualChat(data)
        THEN @
        ELSE Append(@, [chat |-> data, displayName |-> data.name])]

\* added_to_chat and chat_created put the chat into the list of its view
addedToChatHandler(sb, data) ==
    [sb EXCEPT !.activeChats =
        IF \/ Listed(sb, data.id)
           \/ sb.viewType = "chats" /\ ~isIndividualChat(data)
           \/ sb.viewType = "groups" /\ isIndividualChat(data)
        THEN @
        ELSE Append(@, [chat |-> data, displayName |-> data.name])]

chatCreatedHandler(sb, newChat) == addedToChatHandler(sb, newChat)

\* pusherClient.bind: the four events that have a handler
Dispatch(sb, ev) ==
    CASE ev.event = "new_message" -> chatHandler(sb, ev.message)
      [] ev.event = "chat_updated" -> chatUpdateHandler(sb, ev.chat)
      [] ev.event = "added_to_chat" -> addedToChatHandler(sb, ev.chat)
      [] ev.event = "chat_created" -> chatCreatedHandler(sb, ev.chat)
      [] OTHER -> sb

\* The dashboard is loaded: Layout reads the store, ChatsList takes the view
\* saved in localStorage, SidebarChatList subscribes from here on.
SideLoad ==
    /\ ~sidebar.mounted
    /\ \E order \in Orders(userChats[Viewer]) :
          LET items == LayoutItems(Viewer, order)
              props == [sidebar EXCEPT !.mounted = TRUE,
                                       !.chats = individualChatsSorted(items),
                                       !.groups = groupChatsSorted(items)]
          IN  sidebar' = [props EXCEPT
                            !.activeChats = displayedChats(props, props.viewType),
                            !.unseenMessages = <<>>,
                            !.cursor = Len(channels[UserChatsChannel(Viewer)])]
    /\ UNCHANGED <<serverVars, messages, cursor, dups, lastDelivered, responses,
                   nsent, sends, editor, socket>>

\* ChatsAndGroupsToggle: setCurrentView, then setActiveChats(chats)
SideToggle ==
    /\ sidebar.mounted
    /\ LET currentView == IF sidebar.viewType = "chats" THEN "groups" ELSE "chats"
       IN  sidebar' = [sidebar EXCEPT
                         !.viewType = currentView,
                         !.activeChats = displayedChats(sidebar, currentView)]
    /\ UNCHANGED <<serverVars, messages, cursor, dups, lastDelivered, responses,
                   nsent, sends, editor, socket>>

\* A Link of the list or the dashboard is followed: the pathname effect
SideNavigate(pathname) ==
    /\ sidebar.mounted
    /\ pathname # sidebar.pathname
    /\ sidebar' = [sidebar EXCEPT
                     !.pathname = pathname,
                     !.unseenMessages =
                         IF pathname = "/dashboard" THEN @
                         ELSE SelectSeq(@, LAMBDA msg : ~endsWith(pathname, msg.chatId))]
    /\ UNCHANGED <<serverVars, messages, cursor, dups, lastDelivered, responses,
                   nsent, sends, editor, socket>>

\* The next event of the user's channel reaches the browser.
SideDeliver ==
    LET queue == channels[UserChatsChannel(Viewer)]
    IN  /\ sidebar.mounted
        /\ sidebar.cursor < Len(queue)
        /\ sidebar' = [Dispatch(sidebar, queue[sidebar.cursor + 1])
                         EXCEPT !.cursor = sidebar.cursor + 1]
        /\ UNCHANGED <<serverVars, messages, cursor, dups, lastDelivered,
                       responses, nsent, sends, editor, socket>>

\* The paths the sidebar links to
SidePaths ==
    {"/dashboard"} \cup {ChatPath(sidebar.activeChats[k].chat.id) :
                            k \in 1..Len(sidebar.activeChats)}

\* What the other users do meanwhile: u1 creates a group with the viewer,
\* writes to the viewer, adds u3, removes the viewer, renames
SideBodies == {<<"u1", <<"u1", "u2">>, " Study ">>}
SideSenders == {"u1"}
SideTexts == {"hi"}
SideNames == {" Study ", SENTINEL}

SideArrive(i) ==
    \/ \E body \in SideBodies :
          ChatCreateArrive(i, body[1], body[2], body[3])
    \/ \E user \in SideSenders, chatId \in DOMAIN chats :
          AddMemberArrive(i, user, chatId, "u3")
    \/ \E user \in SideSenders, chatId \in DOMAIN chats :
          RemoveMemberArrive(i, user, chatId, Viewer)
    \/ \E user \in SideSenders, chatId \in DOMAIN chats, name \in SideNames :
          SetNameArrive(i, user, chatId, name)
    \/ \E user \in SideSenders, text \in SideTexts :
          \E chatId \in DOMAIN chats \cup {"u1--u2"} :
             MessageSendArrive(i, "send", user, chatId, text, None)

SideStep(i) ==
    \/ ChatCreateCheck(i) \/ ChatCreateGetFriends(i) \/ ChatCreateSet(i)
    \/ \E k \in reqs[i].pend : ChatCreateSettle(i, k)
    \/ AddMemberGetChat(i) \/ AddMemberGetMember(i)
    \/ \E k \in reqs[i].pend : AddMemberSettle(i, k)
    \/ RemoveMemberGetChat(i)
    \/ \E k \in reqs[i].pend : RemoveMemberSettle(i, k)
    \/ SetNameGetChat(i)
    \/ \E k \in reqs[i].pend : SetNameSettle(i, k)
    \/ SendStep(i)
    \/ Close(i)

NextSide ==
    \/ \E i \in SrvSlots : (SideArrive(i) /\ UNCHANGED clientVars) \/ SideStep(i)
    \/ SideLoad
    \/ SideToggle
    \/ \E pathname \in SidePaths : SideNavigate(pathname)
    \/ SideDeliver

SpecSide == Init /\ [][NextSide]_vars

\* At-least-once: an event of the user's channel that the browser has had
\* already reaches it again.
SideRedeliver(k) ==
    LET queue == channels[UserChatsChannel(Viewer)]
    IN  /\ sidebar.mounted
        /\ dups < MaxDups
        /\ k \in 1..sidebar.cursor
        /\ dups' = dups + 1
        /\ sidebar' = Dispatch(sidebar, queue[k])
        /\ UNCHANGED <<serverVars, messages, cursor, lastDelivered, responses,
                       nsent, sends, editor, socket>>

\* What u1 does while the sidebar is watched for its order: creating a group
\* with the viewer, writing, adding u3, renaming
LiveNames == {" Study "}

LiveArrive(i) ==
    \/ \E body \in SideBodies :
          ChatCreateArrive(i, body[1], body[2], body[3])
    \/ \E user \in SideSenders, chatId \in DOMAIN chats :
          AddMemberArrive(i, user, chatId, "u3")
    \/ \E user \in SideSenders, chatId \in DOMAIN chats, name \in LiveNames :
          SetNameArrive(i, user, chatId, name)
    \/ \E user \in SideSenders, text \in SideTexts :
          \E chatId \in DOMAIN chats \cup {"u1--u2"} :
             MessageSendArrive(i, "send", user, chatId, text, None)

LiveStep(i) ==
    \/ ChatCreateCheck(i) \/ ChatCreateGetFriends(i) \/ ChatCreateSet(i)
    \/ \E k \in reqs[i].pend : ChatCreateSettle(i, k)
    \/ AddMemberGetChat(i) \/ AddMemberGetMember(i)
    \/ \E k \in reqs[i].pend : AddMemberSettle(i, k)
    \/ SetNameGetChat(i)
    \/ \E k \in reqs[i].pend : SetNameSettle(i, k)
    \/ SendStep(i)
    \/ Close(i)

\* The sidebar under live events that may come twice, while time passes.
NextLive ==
    \/ \E i \in SrvSlots : (LiveArrive(i) /\ UNCHANGED clientVars) \/ LiveStep(i)
    \/ SideLoad
    \/ SideToggle
    \/ SideDeliver
    \/ \E k \in 1..(2 * MaxCommits + MaxFaults) : SideRedeliver(k)
    \/ Tick

SpecLive == Init /\ [][NextLive]_vars

(***************************************************************************)
(* The layout over the stores it may find: two groups and two direct        *)
(* messages of the viewer, each with or without messages, the groups with   *)
(* or without a creation time.                                              *)
(***************************************************************************)
LayoutGroupIds == {"c1", "c2"}
LayoutDirectIds == {"u1--u2", "u2--u3"}
CreatedAts == {0, 50, 80}
LatestTimestamps == {NullTs, 60, 100}

\* The log of a chat whose latest message has the timestamp: an older
\* message comes before the one of 100.
LogUpTo(chatId, latest) ==
    {Message("m" \o ToString(t), chatId, "u1", "hi", t) :
        t \in {u \in {60, 100} : u <= latest}}

InitLayout ==
    /\ \E createdAt \in [LayoutGroupIds -> CreatedAts] :
          chats = [c \in LayoutGroupIds \cup LayoutDirectIds |->
                     IF c \in LayoutGroupIds
                     THEN Chat(c, "Study", <<"u1", "u2">>, createdAt[c])
                     ELSE Chat(c, SENTINEL, split(c), 0)]
    /\ userChats = [u \in Users |->
                      {c \in LayoutGroupIds \cup LayoutDirectIds :
                          includes(IF c \in LayoutGroupIds THEN <<"u1", "u2">>
                                   ELSE split(c), u)}]
    /\ friends = FriendsInit
    /\ \E latest \in [LayoutGroupIds \cup LayoutDirectIds -> LatestTimestamps] :
          msgLog = [c \in AllChatIds |->
                      IF c \in DOMAIN latest THEN LogUpTo(c, latest[c]) ELSE {}]
    /\ channels = [c \in Channels |-> <<>>]
    /\ reqs = [i \in Slots |-> IdleReq]
    /\ clock = TickMs
    /\ nextId = Cardinality(LayoutGroupIds)
    /\ commits = 0
    /\ faults = 0
    /\ messages = <<>>
    /\ cursor = 0
    /\ dups = 0
    /\ lastDelivered = NoEvent
    /\ responses = {}
    /\ nsent = 0
    /\ sends = {}
    /\ sidebar = Unmounted
    /\ editor = NotEditing
    /\ socket = Unplugged

NextLayout ==
    \/ SideLoad
    \/ SideToggle
    \/ \E pathname \in SidePaths : SideNavigate(pathname)

SpecLayout == InitLayout /\ [][NextLayout]_vars

(***************************************************************************)
(* Claims about the message pipeline                                       *)
(***************************************************************************)
\* The records of the list that stand for one send: the optimistic record
\* (id tempId) and the canonical one (id id).
RecordsOf(s) == {k \in DOMAIN messages : messages[k].id \in {s.tempId, s.id}}

\* The canonical message of a send has been handed to messageHandler.
CanonicalDelivered(s) ==
    \E k \in 1..cursor :
        LET ev == channels[ChatChannel(Here)][k]
        IN  /\ ev.event = "incoming-message"
            /\ ev.message.id = s.id
            /\ abs(s.at - ev.message.timestamp) < ReconcileWindowMs

Reconciled(s) ==
    /\ Cardinality(RecordsOf(s)) = 1
    /\ \A k \in RecordsOf(s) : messages[k].id = s.id /\ messages[k].status = "sent"

\* C1: once the canonical message of a send has been delivered within the
\* window, the list holds exactly one record for it, with the canonical id
\* and status sent, whatever the order of HTTP response and delivery.  Stated
\* for the user's only send so far, so that no other pending record of the
\* user is in the list.
C1_ReconciledAfterDelivery ==
    \A s \in sends :
        (sends = {s} /\ ~s.retry /\ s.id # None /\ CanonicalDelivered(s))
        => Reconciled(s)

NoTwoRecordsShareAnId ==
    \A j, k \in DOMAIN messages : messages[j].id = messages[k].id => j = k

\* A step in which messageHandler ran (a delivery or a redelivery).
Handled == cursor' # cursor \/ dups' # dups

\* C2: no two records of the list share an id, and the delivery of a
\* canonical message whose id is already in the list leaves the list unchanged.
C2_DeliveryIdempotent ==
    /\ []NoTwoRecordsShareAnId
    /\ [][(/\ Handled
           /\ lastDelivered'.event = "incoming-message"
           /\ some(messages, LAMBDA msg : msg.id = lastDelivered'.message.id))
          => messages' = messages]_vars

C2_Witness ==
    /\ dups > 0
    /\ lastDelivered.event = "incoming-message"
    /\ Cardinality({k \in DOMAIN messages :
                      messages[k].id = lastDelivered.message.id}) = 1
    /\ Len(messages) >= 2

\* C3: after a failed send is retried, the retry's request succeeds and its
\* canonical message is delivered, the list holds exactly one record for that
\* message: no leftover record with the temp id beside the canonical one.
C3_RetryLeavesOneRecord ==
    \A s \in sends :
        (s.retry /\ s.id # None /\ CanonicalDelivered(s)
            /\ \A resp \in responses : resp.seq # s.seq
            /\ \A i \in Slots : reqs[i].seq # s.seq)
        => Cardinality(RecordsOf(s)) = 1


(***************************************************************************)
(* Claims about the routes                                                 *)
(***************************************************************************)
\* The classification of the specification: a direct message has exactly two
\* members and the sentinel name, every other chat is a group.
DirectMessage(chat) == Len(chat.memberIds) = 2 /\ chat.name = SENTINEL

\* This step is a step of the request in slot i: it moves on or one of its
\* started operations settles.
StepOf(i) == reqs'[i].pc # reqs[i].pc \/ reqs'[i].pend # reqs[i].pend

\* The request in slot i was turned down and left store and broker alone.
TurnedDown(i) ==
    /\ reqs'[i].pc = "done"
    /\ reqs'[i].status # 200
    /\ reqs'[i].pend = {}
    /\ UNCHANGED <<storeVars, channels>>

\* C4: RemoveMember on a chat that is a direct message (exactly 2 members,
\* name "Direct message") is rejected for every requester and every target:
\* chat entity and chat indexes unchanged, nothing published.
C4_RemoveFromDirectMessageRejected ==
    [][\A i \in Slots :
         (/\ StepOf(i)
          /\ reqs[i].kind = "remove" /\ reqs[i].pc = "getChat"
          /\ reqs[i].chatId \in DOMAIN chats
          /\ DirectMessage(chats[reqs[i].chatId]))
         => TurnedDown(i)]_vars

C4_Witness ==
    \E i \in Slots :
        /\ reqs[i].kind = "remove" /\ reqs[i].pc = "done" /\ reqs[i].status = 400
        /\ reqs[i].chatId \in DOMAIN chats
        /\ DirectMessage(chats[reqs[i].chatId])
        /\ includes(chats[reqs[i].chatId].memberIds, reqs[i].user)
        /\ includes(chats[reqs[i].chatId].memberIds, reqs[i].memberId)
        /\ reqs[i].memberId # reqs[i].user

\* An add-member request reads a chat whose trimmed name is empty and that
\* has at least n members.
AddToUnnamed(i, n) ==
    /\ StepOf(i)
    /\ reqs[i].kind = "add" /\ reqs[i].pc = "getChat"
    /\ reqs[i].chatId \in DOMAIN chats
    /\ trim(chats[reqs[i].chatId].name) = ""
    /\ Len(chats[reqs[i].chatId].memberIds) >= n

\* C5, as stated: AddMember is rejected whenever the trimmed name of the chat
\* is empty and the member count after the addition would be 2 or more (so
\* already for a second member of a 1-member chat); the store is unchanged.
C5_AddToUnnamedRejected ==
    [][\A i \in Slots : AddToUnnamed(i, 1) => TurnedDown(i)]_vars

\* C5, amended: AddMember is rejected whenever the trimmed name of the chat is
\* empty and the chat already has 2 or more members (3 or more after the
\* addition); the store is unchanged.
C5_AddToUnnamedPairRejected ==
    [][\A i \in Slots : AddToUnnamed(i, 2) => TurnedDown(i)]_vars

C5_Witness ==
    \E i \in Slots :
        /\ reqs[i].kind = "add" /\ reqs[i].pc = "done" /\ reqs[i].status = 400
        /\ reqs[i].chatId \in DOMAIN chats
        /\ chats[reqs[i].chatId] = reqs[i].chat
        /\ trim(reqs[i].chat.name) = ""
        /\ Len(reqs[i].chat.memberIds) = 2
        /\ includes(reqs[i].chat.memberIds, reqs[i].user)
        /\ ~includes(reqs[i].chat.memberIds, reqs[i].memberId)

\* C6: every site that classifies a chat agrees with DirectMessage / Group:
\* the remove-member route, the two lists of the layout, and the chat page.
C6_ClassifiersAgree ==
    /\ \A c \in DOMAIN chats : isIndividualChat(chats[c]) = DirectMessage(chats[c])
    /\ InFlight = {} =>
         \A user \in Users : \A c \in LayoutChats(user) :
            /\ (c \in groupChats(user)) = ~DirectMessage(chats[c])
            /\ hasMessages(c) =>
                 ((c \in individualChats(user)) = DirectMessage(chats[c]))
    /\ \A i \in Slots :
         (reqs[i].kind = "page" /\ reqs[i].pc = "done" /\ reqs[i].status = 200)
         => /\ reqs[i].isTwoPersonChat = DirectMessage(reqs[i].chat)
            /\ reqs[i].isGroupChat = ~DirectMessage(reqs[i].chat)

\* A send that found no chat under its id, bootstrapped it and was answered
\* 200, with no other request running meanwhile.
FirstMessageSent(i) ==
    /\ reqs[i].kind \in SendKinds /\ reqs[i].pc = "done" /\ reqs[i].status = 200
    /\ reqs[i].boot /\ reqs[i].solo
    /\ reqs[i].chatId \in ImplicitIds

C8_BootstrapOnlyBetweenFriends ==
    [][\A i \in Slots :
         (/\ StepOf(i)
          /\ reqs[i].kind \in SendKinds \cup {"page"}
          /\ reqs[i].chatId \in ImplicitIds
          /\ (chats' # chats \/ userChats' # userChats))
         => LET ids == split(reqs[i].chatId)
            IN  /\ reqs[i].user \in {ids[1], ids[2]}
                /\ ids[2] \in friends[ids[1]]
                /\ ids[1] \in friends[ids[2]]]_vars

\* C9: for AddMember, RemoveMember, Rename and message send no event is
\* published before the store write of the request has completed, and none
\* when that write failed.
C9_PersistBeforePublish ==
    [][\A i \in Slots :
         (/\ StepOf(i)
          /\ reqs[i].kind \in {"add", "remove", "rename"} \cup SendKinds
          /\ channels' # channels)
         => reqs[i].wrote]_vars

\* What a request has written: its message or its chat entity.
Written(r) ==
    CASE r.kind \in SendKinds \cup {"edit"} -> r.message \in msgLog[r.chat.id]
      [] r.kind \in {"add", "remove", "rename"} ->
            r.chatId \in DOMAIN chats /\ chats[r.chatId] = r.ops[1].chat
      [] r.kind = "create" ->
            r.chat.id \in DOMAIN chats /\ chats[r.chat.id] = r.chat
      [] OTHER -> TRUE

\* C10: a publish that fails after the store write of a request leaves what
\* was written in the store as written: no step of the request takes it back.
C10_PublishFailureKeepsWrite ==
    /\ [](\A i \in Slots :
            (reqs[i].wrote /\ reqs[i].pubFailed /\ reqs[i].solo)
            => Written(reqs[i]))
    /\ [][\A i \in Slots :
            (StepOf(i) /\ reqs[i].wrote /\ reqs'[i].pubFailed)
            => (chats' = chats /\ msgLog' = msgLog)]_vars

C10_Witness ==
    \E i \in Slots :
        /\ reqs[i].kind = "rename" /\ reqs[i].pc = "done"
        /\ reqs[i].wrote /\ reqs[i].pubFailed
        /\ reqs[i].status = 500
        /\ chats[reqs[i].chatId].name = trim(reqs[i].name)
        /\ chats[reqs[i].chatId].name # reqs[i].chat.name

\* ---------------------------------------------------------------------------
\* Requests of somebody who is not in the chat
\* ---------------------------------------------------------------------------

\* The routes that act on an existing chat for one of its members.
MemberOnlyKinds == {"add", "remove", "rename", "edit"} \cup SendKinds

\* The requester of r has no session, or is not in the memberIds of the chat
\* r names, which exists.
Outsider(r) ==
    /\ r.kind \in MemberOnlyKinds
    /\ r.chatId \in DOMAIN chats
    /\ r.user = None \/ ~(\E k \in 1..Len(chats[r.chatId].memberIds) :
                              chats[r.chatId].memberIds[k] = r.user)

\* C11: AddMember, RemoveMember, Rename, message edit and message send to an
\* existing chat, asked by somebody who is not in the chat's memberIds or has
\* no session, are rejected: chat entity, chat indexes and message log
\* unchanged, nothing published.
C11_OutsiderRejected ==
    [][\A i \in Slots :
         (StepOf(i) /\ reqs[i].pc = "getChat" /\ Outsider(reqs[i]))
            => TurnedDown(i)]_vars

\* An outsider's request has been answered.
C11_Witness ==
    \E i \in Slots :
       /\ reqs[i].pc = "done" /\ reqs[i].status = 401
       /\ Outsider(reqs[i])
       /\ reqs[i].user # None
       /\ reqs[i].kind = "remove"
       /\ Len(chats[reqs[i].chatId].memberIds) > 2

\* ---------------------------------------------------------------------------
\* Sending an empty text
\* ---------------------------------------------------------------------------

\* C12: a message send request whose text is empty is rejected before any
\* store write: no step of it changes a chat entity, a chat index or a
\* message log, and it is not answered with 200.
C12_EmptyTextWritesNothing ==
    [][\A i \in Slots :
         (StepOf(i) /\ reqs[i].kind \in SendKinds /\ reqs[i].text = "")
            => /\ UNCHANGED storeVars
               /\ reqs'[i].status # 200]_vars

\* ---------------------------------------------------------------------------
\* Chats keep a member
\* ---------------------------------------------------------------------------

\* A remove-member request reads a chat it must leave alone: the chat has one
\* member, or the member to remove is the requester.
LastOrSelf(r) ==
    /\ r.kind = "remove" /\ r.pc = "getChat"
    /\ r.chatId \in DOMAIN chats
    /\ Len(chats[r.chatId].memberIds) = 1 \/ r.memberId = r.user

\* C13: whatever CreateGroup, implicit bootstrap, AddMember, RemoveMember and
\* Rename requests ran and however their steps interleaved, every persisted
\* chat entity has at least one member; and a RemoveMember request is
\* rejected when the chat has one member and when memberId is the requester.
C13_ChatsKeepAMember ==
    [][/\ \A c \in DOMAIN chats' : Len(chats'[c].memberIds) >= 1
       /\ \A i \in Slots :
             (StepOf(i) /\ LastOrSelf(reqs[i])) => TurnedDown(i)]_vars

\* Two removals overlapped, the group is down to one member, and the request
\* of that member to remove themself has been answered.
C13_Witness ==
    \E i, j \in Slots :
       /\ i # j
       /\ reqs[i].kind = "remove" /\ reqs[i].pc = "done"
       /\ reqs[i].status = 200 /\ ~reqs[i].solo
       /\ reqs[j].kind = "remove" /\ reqs[j].pc = "done"
       /\ reqs[j].status = 400
       /\ reqs[j].chatId = reqs[i].chatId
       /\ reqs[j].memberId = reqs[j].user
       /\ Len(chats[reqs[j].chatId].memberIds) = 1
       /\ chats[reqs[j].chatId].memberIds[1] = reqs[j].user

\* ---------------------------------------------------------------------------
\* Two-entry chats made by CreateGroup
\* ---------------------------------------------------------------------------

\* C14: CreateGroup never stores a chat with exactly two entries in memberIds
\* unless one of them is somebody else than the requester and a friend of
\* the requester.
C14_PairCreatedOnlyWithFriend ==
    [][\A i \in Slots :
         (/\ StepOf(i)
          /\ reqs[i].kind = "create" /\ reqs[i].pc = "setChat"
          /\ chats' # chats
          /\ Len(reqs[i].chat.memberIds) = 2)
            => \E k \in 1..2 :
                  /\ reqs[i].chat.memberIds[k] # reqs[i].user
                  /\ reqs[i].chat.memberIds[k] \in friends[reqs[i].user]]_vars

\* ---------------------------------------------------------------------------
\* Editing a message
\* ---------------------------------------------------------------------------

\* The entries of a chat's log that carry the id.
EntriesOf(log, chatId, messageId) == {m \in log[chatId] : m.id = messageId}

\* C15: a message edit succeeds only for the message's sender; when no other
\* request is in flight, the write of the edited message leaves exactly one
\* log entry with the id, with chatId, senderId and timestamp (the sort
\* score) of the original and the trimmed new text, and as many entries as
\* before the edit; the 200 answer finds the log like that.
C15_EditReplacesInPlace ==
    [][\A i \in Slots :
         (StepOf(i) /\ reqs[i].kind = "edit" /\ reqs[i].solo /\ reqs'[i].solo)
            => LET r == reqs[i]
                   original == r.message
                   entries == EntriesOf(msgLog', r.chatId, r.messageId)
               IN  /\ (r.pc = "zadd" /\ msgLog' # msgLog)
                         => /\ original.senderId = r.user
                            /\ entries = {[original EXCEPT !.text = trim(r.text)]}
                            /\ Cardinality(msgLog'[r.chatId])
                                  = Cardinality(msgLog[r.chatId] \cup {original})
                            /\ original \notin msgLog[r.chatId]
                   /\ (reqs'[i].pc = "done" /\ reqs'[i].status = 200)
                         => /\ r.message.senderId = r.user
                            /\ Cardinality(entries) = 1
                            /\ \A m \in entries : m = r.message
                                                    /\ m.text = trim(r.text)]_vars

\* An edit was answered 200 and the text it was given needed trimming.
C15_Witness ==
    \E i \in Slots :
       /\ reqs[i].kind = "edit" /\ reqs[i].pc = "done" /\ reqs[i].status = 200
       /\ reqs[i].solo
       /\ reqs[i].text # trim(reqs[i].text)
       /\ reqs[i].message \in msgLog[reqs[i].chatId]
       /\ reqs[i].message.text = trim(reqs[i].text)

\* ---------------------------------------------------------------------------
\* The sidebar of a removed member
\* ---------------------------------------------------------------------------

\* The event the sidebar takes from its channel in this step.
Delivered ==
    channels[UserChatsChannel(Viewer)][sidebar.cursor + 1]

DeliveryStep ==
    /\ sidebar.mounted
    /\ sidebar'.cursor = sidebar.cursor + 1

\* C16: once the removed_from_chat event of a RemoveMember that has committed
\* (the member is out of the entity and the chat out of the member's index)
\* has been delivered to the removed member's browser, the sidebar no longer
\* lists the chat.
C16_RemovedChatDropped ==
    [][(/\ DeliveryStep
        /\ Delivered.event = "removed_from_chat"
        /\ ~includes(chats[Delivered.chat.id].memberIds, Viewer)
        /\ Viewer \in DOMAIN userChats
        /\ Delivered.chat.id \notin userChats[Viewer])
          => ~Listed(sidebar', Delivered.chat.id)]_vars

\* ---------------------------------------------------------------------------
\* The view of an updated chat
\* ---------------------------------------------------------------------------

\* C17: after the sidebar has applied a chat_updated event for a chat it
\* lists, the chat is shown only in the view that matches the classification
\* of the event's payload: a direct message in "chats", a group in "groups".
C17_UpdatedChatInItsView ==
    [][(/\ DeliveryStep
        /\ Delivered.event = "chat_updated"
        /\ Listed(sidebar, Delivered.chat.id)
        /\ Listed(sidebar', Delivered.chat.id))
          => (sidebar'.viewType = "chats" <=> DirectMessage(Delivered.chat))]_vars

\* ---------------------------------------------------------------------------
\* Unseen counts
\* ---------------------------------------------------------------------------

\* unseenMessagesCount of a chat
unseenMessagesCount(sb, chatId) ==
    Len(SelectSeq(sb.unseenMessages, LAMBDA unseenMsg : unseenMsg.chatId = chatId))

OthersKeepCount(chatId) ==
    \A c \in AllChatIds \ {chatId} :
       unseenMessagesCount(sidebar', c) = unseenMessagesCount(sidebar, c)

LatestOrZero(chatId) ==
    IF msgLog[chatId] = {} THEN 0
    ELSE CHOOSE t \in {m.timestamp : m \in msgLog[chatId]} :
            \A m \in msgLog[chatId] : m.timestamp <= t

\* max(createdAt, latest message timestamp), a missing value being 0
GroupRank(chatId) ==
    IF chats[chatId].createdAt >= LatestOrZero(chatId)
    THEN chats[chatId].createdAt ELSE LatestOrZero(chatId)

IdsOf(list) == {list[k].chat.id : k \in 1..Len(list)}

\* C19: in the snapshot the layout hands to the sidebar, the group view holds
\* the viewer's groups in descending order of max(createdAt, latest message
\* timestamp), and the direct view the viewer's direct messages that have
\* messages in descending order of the latest message timestamp.
C19_SnapshotOrder ==
    sidebar.mounted =>
       /\ IdsOf(sidebar.groups) = groupChats(Viewer)
       /\ Len(sidebar.groups) = Cardinality(groupChats(Viewer))
       /\ \A j, k \in 1..Len(sidebar.groups) :
             j < k => GroupRank(sidebar.groups[j].chat.id)
                         >= GroupRank(sidebar.groups[k].chat.id)
       /\ IdsOf(sidebar.chats) = individualChats(Viewer)
       /\ Len(sidebar.chats) = Cardinality(individualChats(Viewer))
       /\ \A j, k \in 1..Len(sidebar.chats) :
             j < k => LatestOrZero(sidebar.chats[j].chat.id)
                         >= LatestOrZero(sidebar.chats[k].chat.id)

\* Group c1 (created at 50, latest message at 100) is listed before group c2
\* (created at 80, no message), and the two direct messages are listed too.
C19_Witness ==
    /\ sidebar.mounted
    /\ chats["c1"].createdAt = 50 /\ LatestOrZero("c1") = 100
    /\ chats["c2"].createdAt = 80 /\ msgLog["c2"] = {}
    /\ Len(sidebar.groups) = 2
    /\ sidebar.groups[1].chat.id = "c1"
    /\ sidebar.groups[2].chat.id = "c2"
    /\ Len(sidebar.chats) = 2
    /\ LatestOrZero(sidebar.chats[1].chat.id) > LatestOrZero(sidebar.chats[2].chat.id)

\* ---------------------------------------------------------------------------
\* The events of CreateGroup
\* ---------------------------------------------------------------------------

\* The channel of the user holds the event.
Holds(userId, ev) ==
    \E k \in 1..Len(channels[UserChatsChannel(userId)]) :
       channels[UserChatsChannel(userId)][k] = ev

\* C20: a CreateGroup that is answered 201 has published chat_created with
\* the new entity on the notification channel of every member and
\* added_to_chat on that of every member but the creator; at no point of the
\* request does the creator's channel hold added_to_chat for the new chat.
C20_CreateNotifiesMembers ==
    \A i \in Slots :
       reqs[i].kind = "create" =>
          LET r == reqs[i]
          IN  /\ (r.pc = "done" /\ r.status = 201)
                    => \A k \in 1..Len(r.chat.memberIds) :
                          /\ Holds(r.chat.memberIds[k], ChatCreated(r.chat))
                          /\ r.chat.memberIds[k] # r.user
                               => Holds(r.chat.memberIds[k], AddedToChat(r.chat))
              /\ r.chat # NullChat
                    => \A k \in 1..Len(channels[UserChatsChannel(r.user)]) :
                          LET ev == channels[UserChatsChannel(r.user)][k]
                          IN  ~(ev.event = "added_to_chat" /\ ev.chat.id = r.chat.id)

\* A group of three has been created and answered 201.
C20_Witness ==
    \E i \in Slots :
       /\ reqs[i].kind = "create" /\ reqs[i].pc = "done" /\ reqs[i].status = 201
       /\ Len(reqs[i].chat.memberIds) = 3
       /\ chats[reqs[i].chat.id] = reqs[i].chat
       /\ Holds(reqs[i].user, ChatCreated(reqs[i].chat))

\* ---------------------------------------------------------------------------
\* Who is told to refresh
\* ---------------------------------------------------------------------------

\* The entity a membership or rename request has written: the one of its
\* db.set, the first operation of its Promise.all.
UpdatedChat(r) == r.ops[1].chat

\* C21: when an AddMember, RemoveMember or Rename request is answered 200,
\* chat_updated with the updated entity is on the notification channel of
\* every member of the updated chat (the added member too) and on that of no
\* other user.
C21_RefreshToMembersOnly ==
    \A i \in Slots :
       (/\ reqs[i].kind \in {"add", "remove", "rename"}
        /\ reqs[i].pc = "done" /\ reqs[i].status = 200)
          => \A u \in Users :
                Holds(u, ChatUpdated(UpdatedChat(reqs[i])))
                   <=> includes(UpdatedChat(reqs[i]).memberIds, u)

\* The save whose request has failed and whose catch block runs in this step.
FailedSaves ==
    {v \in editor.saves :
        \E resp \in responses \ responses' :
           resp.tempId = None /\ resp.seq = v.seq /\ resp.status # 200}

\* C22: when the request of an edit fails, the edited record has again the
\* text it had when the edit mode was entered, that message is shown in edit
\* mode with the edit field holding that text, and every other record is as
\* it was.
C22_FailedEditRestored ==
    [][\A v \in FailedSaves :
          /\ Len(messages') = Len(messages)
          /\ \A k \in DOMAIN messages :
                IF messages[k].id = v.messageId
                THEN messages'[k] = [messages[k] EXCEPT !.text = v.originalText]
                ELSE messages'[k] = messages[k]
          /\ \E k \in DOMAIN messages' :
                /\ messages'[k].id = v.messageId
                /\ messages'[k].text = v.originalText
          /\ editor'.editingMessageId = v.messageId
          /\ editor'.editText = v.originalText]_vars

\* The same without the record being shown: the frame and the edit field.
FailedEditFrame ==
    [][\A v \in FailedSaves :
          /\ Len(messages') = Len(messages)
          /\ \A k \in DOMAIN messages :
                IF messages[k].id = v.messageId
                THEN messages'[k] = [messages[k] EXCEPT !.text = v.originalText]
                ELSE messages'[k] = messages[k]
          /\ editor'.editingMessageId = v.messageId
          /\ editor'.editText = v.originalText]_vars

\* The request of a send has written its message to the log of the chat.
Persisted(seq) ==
    \E s \in sends : /\ s.seq = seq /\ s.id # None
                     /\ \E m \in msgLog[Here] : m.id = s.id

\* The responses to sends of the record that ChatInput takes in this step.
Answers(tempId) ==
    {resp \in responses \ responses' : resp.tempId = tempId}

\* The status a record of the list had before this step, by its temp id.
StatusBefore(tempId) ==
    {messages[j].status : j \in {n \in DOMAIN messages : messages[n].tempId = tempId}}

\* The sendMessage call made in this step.
NewSends == {s \in sends' : \A t \in sends : t.seq # s.seq}

IncomingNow ==
    /\ (cursor' # cursor \/ dups' # dups)
    /\ lastDelivered'.event = "incoming-message"
    /\ lastDelivered'.message.chatId = Here

\* The pending records of the list that a canonical message matches.
PendingMatches(message) ==
    {k \in DOMAIN messages :
        /\ messages[k].status = "pending"
        /\ messages[k].text = message.text
        /\ messages[k].senderId = message.senderId
        /\ abs(messages[k].timestamp - message.timestamp) < ReconcileWindowMs}

\* C24: a canonical message whose id is new and that matches a pending record
\* takes the place of one such record: the list keeps its length, the
\* canonical record (status sent) is at that record's index and every other
\* record is where and what it was; one that matches no pending record is
\* put at the head, the records shown before following in their order.
C24_ReconcileFrame ==
    [][IncomingNow =>
         LET message == lastDelivered'.message
             canonical == Shown(message, "sent", Undefined)
         IN  (\A k \in DOMAIN messages : messages[k].id # message.id) =>
                IF PendingMatches(message) # {}
                THEN \E k \in PendingMatches(message) :
                        /\ Len(messages') = Len(messages)
                        /\ messages'[k] = canonical
                        /\ \A j \in DOMAIN messages \ {k} :
                              messages'[j] = messages[j]
                ELSE messages' = <<canonical>> \o messages]_vars

\* The one record of the one send of the user is the canonical one: it has
\* taken the place of the pending record.
C24_Witness ==
    /\ nsent = 1
    /\ Len(messages) = 1
    /\ messages[1].senderId = Me
    /\ messages[1].tempId = Undefined
    /\ messages[1].status = "sent"
    /\ lastDelivered.message.id = messages[1].id

\* C25: when the user alone has sent, every canonical event was handed over
\* once and in the order of the channel, and neither a pending nor any other
\* optimistic record remains, the list is in descending order of timestamp.
C25_NewestFirstAfterReconcile ==
    (/\ dups = 0
     /\ nsent >= 2
     /\ cursor = Len(channels[ChatChannel(Here)])
     /\ \A k \in DOMAIN messages :
           /\ messages[k].senderId = Me
           /\ messages[k].tempId = Undefined)
       => \A j, k \in DOMAIN messages :
             j < k => messages[j].timestamp >= messages[k].timestamp

\* C26: a new_message event for a chat that the store holds as a group with
\* the user among its members never makes the direct view list that chat.
C26_NoDirectPlaceholderForGroup ==
    [][(/\ DeliveryStep
        /\ Delivered.event = "new_message"
        /\ Delivered.message.chatId \in DOMAIN chats
        /\ includes(chats[Delivered.message.chatId].memberIds, Viewer)
        /\ ~DirectMessage(chats[Delivered.message.chatId])
        /\ sidebar.viewType = "chats"
        /\ ~Listed(sidebar, Delivered.message.chatId))
          => ~Listed(sidebar', Delivered.message.chatId)]_vars

\* C27: a chat that the store holds as a group is never a direct message
\* after the next step, whichever request takes it.
C27_GroupsRemainGroups ==
    [][\A c \in DOMAIN chats :
          ~DirectMessage(chats[c]) => ~DirectMessage(chats'[c])]_vars

\* C28: when an edit request that found its message in the log has ended,
\* with whatever answer, the log of the chat holds an entry with the id of
\* that message.
C28_EditNeverDestroys ==
    \A i \in Slots :
       (/\ reqs[i].kind = "edit"
        /\ reqs[i].pc = "done"
        /\ reqs[i].message.id = reqs[i].messageId)
          => EntriesOf(msgLog, reqs[i].chatId, reqs[i].messageId) # {}

\* The entries of a sidebar list with one chat id.
EntriesFor(list, chatId) == {k \in 1..Len(list) : list[k].chat.id = chatId}

NoTwoEntriesShareAnId(list) ==
    \A c \in AllChatIds : Cardinality(EntriesFor(list, c)) <= 1

\* The events published so far on the user's channel, delivered or not.
LiveEvents == Range(channels[UserChatsChannel(Viewer)])

\* C29: the list of the sidebar holds no chat id twice, whatever events of
\* the user's channel it has been given, in order or again; an added_to_chat
\* or chat_created event for a group, applied in the "groups" view, leaves
\* exactly one entry for that group; and applying any event of the channel
\* next, and then once more, gives the same list with no id twice.
C29_OneEntryPerChat ==
    sidebar.mounted =>
       /\ NoTwoEntriesShareAnId(sidebar.activeChats)
       /\ \A ev \in LiveEvents :
             LET once == Dispatch(sidebar, ev)
             IN  /\ NoTwoEntriesShareAnId(once.activeChats)
                 /\ Dispatch(once, ev).activeChats = once.activeChats
                 /\ (/\ ev.event \in {"added_to_chat", "chat_created"}
                     /\ sidebar.viewType = "groups"
                     /\ ~isIndividualChat(ev.chat))
                       => Cardinality(EntriesFor(once.activeChats, ev.chat.id)) = 1

\* Both events of one creation and one of them again have reached the
\* "groups" view, which was empty when it was loaded: it lists the group.
C29_Witness ==
    /\ sidebar.mounted
    /\ sidebar.groups = <<>>
    /\ sidebar.viewType = "groups"
    /\ dups = 1
    /\ sidebar.cursor >= 2
    /\ \E c \in NanoChatIds :
          /\ channels[UserChatsChannel(Viewer)][1].event = "added_to_chat"
          /\ channels[UserChatsChannel(Viewer)][1].chat.id = c
          /\ channels[UserChatsChannel(Viewer)][2].event = "chat_created"
          /\ channels[UserChatsChannel(Viewer)][2].chat.id = c
          /\ Cardinality(EntriesFor(sidebar.activeChats, c)) = 1

\* What a view is ordered by: the direct view by the latest message of the
\* chat, the group view by the later of its creation and its latest message.
ViewRank(viewType, chatId) ==
    IF viewType = "chats" THEN LatestOrZero(chatId) ELSE GroupRank(chatId)

InViewOrder(sb) ==
    \A j, k \in 1..Len(sb.activeChats) :
       (/\ j < k
        /\ sb.activeChats[j].chat.id \in DOMAIN chats
        /\ sb.activeChats[k].chat.id \in DOMAIN chats)
          => ViewRank(sb.viewType, sb.activeChats[j].chat.id)
                >= ViewRank(sb.viewType, sb.activeChats[k].chat.id)

\* C30: a view of the sidebar that is in order when a new_message,
\* added_to_chat or chat_created event reaches it is in order after the
\* event has been applied.
C30_ViewsStaySorted ==
    [][(/\ DeliveryStep
        /\ Delivered.event \in {"new_message", "added_to_chat", "chat_created"}
        /\ InViewOrder(sidebar))
          => InViewOrder(sidebar')]_vars

\* C31: a chat_updated event leaves the list as long as it was; the entry of
\* the chat of the payload, if there is one, gets the payload as its entity
\* and keeps its display name when the payload is a direct message, and
\* takes the name of the payload otherwise; every other entry is as it was.
C31_ChatUpdatedEntry ==
    [][(DeliveryStep /\ Delivered.event = "chat_updated") =>
         LET data == Delivered.chat
             prev == sidebar.activeChats
             next == sidebar'.activeChats
         IN  /\ Len(next) = Len(prev)
             /\ \A k \in 1..Len(prev) :
                   IF prev[k].chat.id = data.id
                   THEN /\ next[k].chat = data
                        /\ next[k].displayName =
                              IF DirectMessage(data) THEN prev[k].displayName
                              ELSE data.name
                   ELSE next[k] = prev[k]]_vars

\* The event handed over last was a chat_updated with a direct message as
\* its payload, for a chat that the groups view was loaded with under its
\* group name: the entry holds the payload and still shows the group name.
C31_Witness ==
    /\ sidebar.mounted
    /\ sidebar.cursor >= 1
    /\ LET ev == channels[UserChatsChannel(Viewer)][sidebar.cursor]
       IN  /\ ev.event = "chat_updated"
           /\ DirectMessage(ev.chat)
           /\ \E k \in 1..Len(sidebar.activeChats) :
                 /\ sidebar.activeChats[k].chat = ev.chat
                 /\ sidebar.activeChats[k].displayName = "Study"
           /\ \E j \in 1..Len(sidebar.groups) :
                 /\ sidebar.groups[j].chat.id = ev.chat.id
                 /\ sidebar.groups[j].chat # ev.chat

\* ---------------------------------------------------------------------------
\* pusherClient in the browser: one shared client, its channels and bindings,
\* and the effects of Messages, FriendsList and AllFriendsList that use it
\* ---------------------------------------------------------------------------

\* How often Messages may run its subscription effect in one exploration
MaxEffects == 3

\* pusherClient.subscribe(name): the channel object is created if absent, a
\* cancelled pending subscription is reinstated, and the subscription is sent
\* when the connection is up.
subscribe(ps, name) ==
    LET now == ps.subs[name]
    IN  [ps EXCEPT !.subs[name] =
            CASE now \in {"none", "idle"} ->
                    IF ps.connected THEN "pending" ELSE "idle"
              [] now = "cancelled" -> "pending"
              [] OTHER -> now]

\* pusherClient.unsubscribe(name): a pending subscription is only cancelled and
\* its channel object kept; otherwise the channel object leaves the client
\* with everything bound to it. Nothing counts the subscribers.
unsubscribe(ps, name) ==
    LET now == ps.subs[name]
    IN  IF now \in {"pending", "cancelled"}
        THEN [ps EXCEPT !.subs[name] = "cancelled"]
        ELSE [ps EXCEPT !.subs[name] = "none",
                        !.binds = SelectSeq(@, LAMBDA b : b.channel # name)]

\* channel.bind(event, handler) and pusherClient.bind(event, handler), the
\* latter on the channel "global"; owner and chatId stand for the handler's
\* closure.
bind(ps, channel, event, owner, chatId) ==
    [ps EXCEPT !.binds = Append(@, [channel |-> channel, event |-> event,
                                    owner |-> owner, chatId |-> chatId])]

\* unbind(event, handler): by reference, so only that closure's bindings go.
unbind(ps, channel, event, owner) ==
    [ps EXCEPT !.binds = SelectSeq(@, LAMBDA b :
                            ~(b.channel = channel /\ b.event = event
                              /\ b.owner = owner))]

\* The body of the subscription effect of Messages, run n-th
MessagesSetup(ps, chatId, n) ==
    LET channelName == ChatChannel(chatId)
        s1 == subscribe(ps, channelName)
        s2 == bind(s1, channelName, "incoming-message", n, chatId)
    IN  bind(s2, channelName, "message_edited", n, chatId)

\* A cleanup that only unsubscribes, for comparison
MessagesCleanupUnsubscribeOnly(ps, chatId, n) ==
    unsubscribe(ps, ChatChannel(chatId))

\* Its cleanup: unbind both handlers, then unsubscribe the channel
MessagesCleanup(ps, chatId, n) ==
    LET channelName == ChatChannel(chatId)
        s1 == unbind(ps, channelName, "incoming-message", n)
        s2 == unbind(s1, channelName, "message_edited", n)
    IN  unsubscribe(s2, channelName)

\* getChatMessages: the log of the chat, newest first (equal scores in an
\* arbitrary fixed order)
RECURSIVE getChatMessages(_)
getChatMessages(log) ==
    IF log = {} THEN <<>>
    ELSE LET m == CHOOSE x \in log : \A y \in log : y.timestamp <= x.timestamp
         IN  <<m>> \o getChatMessages(log \ {m})

initialMessages(chatId) ==
    LET loaded == getChatMessages(msgLog[chatId])
    IN  [k \in 1..Len(loaded) |-> Shown(loaded[k], "sent", Undefined)]

\* Messages is rendered for a conversation: both effects run.
MessagesMount(chatId) ==
    /\ ~socket.page.mounted
    /\ socket.effects < MaxEffects
    /\ LET n == socket.effects + 1
           ps == MessagesSetup(socket, chatId, n)
       IN  socket' = [ps EXCEPT !.page = [mounted |-> TRUE, chatId |-> chatId,
                                          effect |-> n],
                                !.effects = n]
    /\ messages' = initialMessages(chatId)
    /\ UNCHANGED <<serverVars, cursor, dups, lastDelivered, responses, nsent,
                   sends, sidebar, editor>>

\* The chatId prop changes: cleanup of the old effect, then the new setup,
\* and the list is reset to the initial messages of the new conversation.
MessagesChangeChat(chatId) ==
    /\ socket.page.mounted
    /\ socket.page.chatId # chatId
    /\ socket.effects < MaxEffects
    /\ LET n == socket.effects + 1
           cleaned == MessagesCleanup(socket, socket.page.chatId,
                                      socket.page.effect)
           ps == MessagesSetup(cleaned, chatId, n)
       IN  socket' = [ps EXCEPT !.page = [mounted |-> TRUE, chatId |-> chatId,
                                          effect |-> n],
                                !.effects = n]
    /\ messages' = initialMessages(chatId)
    /\ UNCHANGED <<serverVars, cursor, dups, lastDelivered, responses, nsent,
                   sends, sidebar, editor>>

\* Messages is removed: cleanup of the effect.
MessagesUnmount ==
    /\ socket.page.mounted
    /\ LET ps == MessagesCleanup(socket, socket.page.chatId, socket.page.effect)
       IN  socket' = [ps EXCEPT !.page = [mounted |-> FALSE, chatId |-> None,
                                          effect |-> 0]]
    /\ messages' = <<>>
    /\ UNCHANGED <<serverVars, cursor, dups, lastDelivered, responses, nsent,
                   sends, sidebar, editor>>

\* The effect of FriendsList and of AllFriendsList, the same in both
FriendsSetup(ps, comp) ==
    LET s1 == subscribe(ps, FriendsChannel)
        s2 == bind(s1, "global", "new_friend", comp, None)
    IN  bind(s2, "global", "friend_removed", comp, None)

FriendsCleanup(ps, comp) ==
    LET s1 == unsubscribe(ps, FriendsChannel)
        s2 == unbind(s1, "global", "new_friend", comp)
    IN  unbind(s2, "global", "friend_removed", comp)

FriendsMount(comp) ==
    /\ comp \notin socket.lists
    /\ socket' = [FriendsSetup(socket, comp) EXCEPT !.lists = @ \cup {comp}]
    /\ UNCHANGED <<serverVars, messages, cursor, dups, lastDelivered,
                   responses, nsent, sends, sidebar, editor>>

FriendsUnmount(comp) ==
    /\ comp \in socket.lists
    /\ socket' = [FriendsCleanup(socket, comp) EXCEPT !.lists = @ \ {comp}]
    /\ UNCHANGED <<serverVars, messages, cursor, dups, lastDelivered,
                   responses, nsent, sends, sidebar, editor>>

FriendsListMount == FriendsMount("FriendsList")
FriendsListUnmount == FriendsUnmount("FriendsList")
AllFriendsListMount == FriendsMount("AllFriendsList")
AllFriendsListUnmount == FriendsUnmount("AllFriendsList")

\* pusher:subscription_succeeded reaches the client: a pending channel is
\* subscribed, a cancelled one is unsubscribed now.
SubscriptionSucceeded(name) ==
    /\ socket.connected
    /\ socket.subs[name] \in {"pending", "cancelled"}
    /\ socket' = IF socket.subs[name] = "pending"
                 THEN [socket EXCEPT !.subs[name] = "subscribed"]
                 ELSE [socket EXCEPT
                          !.subs[name] = "none",
                          !.binds = SelectSeq(@, LAMBDA b : b.channel # name)]
    /\ UNCHANGED <<serverVars, messages, cursor, dups, lastDelivered,
                   responses, nsent, sends, sidebar, editor>>

\* The connection drops: every channel object stays, unsubscribed.
Disconnect ==
    /\ socket.connected
    /\ socket' = [socket EXCEPT
                     !.connected = FALSE,
                     !.subs = [c \in SocketChannels |->
                                 IF socket.subs[c] = "none" THEN "none"
                                 ELSE "idle"]]
    /\ UNCHANGED <<serverVars, messages, cursor, dups, lastDelivered,
                   responses, nsent, sends, sidebar, editor>>

\* The connection is back: subscribeAll() sends every channel's subscription.
Reconnect ==
    /\ ~socket.connected
    /\ socket' = [socket EXCEPT
                     !.connected = TRUE,
                     !.subs = [c \in SocketChannels |->
                                 IF socket.subs[c] = "idle" THEN "pending"
                                 ELSE socket.subs[c]]]
    /\ UNCHANGED <<serverVars, messages, cursor, dups, lastDelivered,
                   responses, nsent, sends, sidebar, editor>>

\* The handlers bound to an event of a channel, in binding order
Bound(ps, channel, event) ==
    SelectSeq(ps.binds, LAMBDA b : b.channel = channel /\ b.event = event)

\* Each bound handler is called once, in order, with the event
RECURSIVE Emit(_, _, _)
Emit(prev, handlers, ev) ==
    IF handlers = <<>> THEN prev
    ELSE Emit(HandleChannelEvent(prev, ev, Head(handlers).chatId),
              Tail(handlers), ev)

\* The next event of the conversation's channel reaches the client, whose
\* channel object dispatches it to the handlers bound to it.
SocketDeliver ==
    LET name == ChatChannel(Here)
        q == channels[name]
    IN  /\ cursor < Len(q)
        /\ socket.connected
        /\ socket.subs[name] \in {"pending", "cancelled", "subscribed"}
        /\ LET ev == q[cursor + 1]
               handlers == Bound(socket, name, ev.event)
           IN  /\ cursor' = cursor + 1
               /\ lastDelivered' = ev
               /\ messages' = Emit(messages, handlers, ev)
               /\ socket' = [socket EXCEPT !.seen = @ + 1,
                                           !.calls = Len(handlers),
                                           !.last = ev]
        /\ UNCHANGED <<serverVars, dups, responses, nsent, sends, sidebar,
                       editor>>

\* The next event is published while the client has no subscription at the
\* broker: it is never seen.
SocketMiss ==
    LET name == ChatChannel(Here)
        q == channels[name]
    IN  /\ cursor < Len(q)
        /\ ~socket.connected \/ socket.subs[name] # "subscribed"
        /\ cursor' = cursor + 1
        /\ UNCHANGED <<serverVars, messages, dups, lastDelivered, responses,
                       nsent, sends, sidebar, editor, socket>>

\* The other member edits the seeded message of theirs
PeerEdit(i, text) ==
    /\ MessageEditArrive(i, Peer, Here, SeedPeer.id, text)
    /\ UNCHANGED clientVars

SubTexts == {"ok"}
SubEditTexts == {"yo!"}
SubChatIds == {Here, Elsewhere}

\* The seeded conversation of the edit model and the seeded group; no
\* component is mounted yet.
InitSub ==
    /\ chats = set(set(<<>>, Chat(Here, SENTINEL, <<Me, Peer>>, 0)), SeedChat)
    /\ userChats = sadd(sadd(sadd(sadd([u \in Users |-> {}], Me, Here),
                                  Peer, Here), Me, SeedChat.id),
                        Peer, SeedChat.id)
    /\ friends = FriendsInit
    /\ msgLog = [c \in AllChatIds |->
                   IF c = Here THEN {SeedOwn, SeedPeer} ELSE {}]
    /\ channels = [c \in Channels |-> <<>>]
    /\ reqs = [i \in Slots |-> IdleReq]
    /\ clock = TickMs + 1
    /\ nextId = 2
    /\ commits = 0
    /\ faults = MaxFaults
    /\ messages = <<>>
    /\ cursor = 0
    /\ dups = 0
    /\ lastDelivered = NoEvent
    /\ responses = {}
    /\ nsent = 0
    /\ sends = {}
    /\ sidebar = Unmounted
    /\ editor = NotEditing
    /\ socket = Unplugged

NextSub ==
    \/ \E chatId \in SubChatIds : MessagesMount(chatId)
    \/ \E chatId \in SubChatIds : MessagesChangeChat(chatId)
    \/ MessagesUnmount
    \/ FriendsListMount
    \/ FriendsListUnmount
    \/ AllFriendsListMount
    \/ AllFriendsListUnmount
    \/ \E name \in SocketChannels : SubscriptionSucceeded(name)
    \/ Disconnect
    \/ Reconnect
    \/ SocketDeliver
    \/ SocketMiss
    \/ \E i \in PageSlots, text \in SubTexts : PeerSend(i, text)
    \/ \E i \in PageSlots, text \in SubEditTexts : PeerEdit(i, text)
    \/ \E i \in PageSlots : EditSendStep(i)
    \/ \E i \in PageSlots : EditStep(i)
    \/ \E i \in PageSlots : Close(i)

SpecSub == InitSub /\ [][NextSub]_vars

\* ---------------------------------------------------------------------------
\* C32
\* ---------------------------------------------------------------------------

MessageEvents == {"incoming-message", "message_edited"}
ChatChannels == {ChatChannel(c) : c \in SubChatIds}

\* What is bound to the conversation channels, in all
ChatBinds == SelectSeq(socket.binds, LAMBDA b : b.channel \in ChatChannels)

\* While Messages is mounted, from the moment of the subscription on and in
\* every state of the channel and of the connection, exactly one handler of
\* each kind is bound, to the channel of the current conversation and with
\* the current chatId in its closure; unmounted, nothing is bound.
OneHandlerOfEachKind ==
    IF socket.page.mounted
    THEN /\ Len(ChatBinds) = Cardinality(MessageEvents)
         /\ \A e \in MessageEvents :
               LET bound == Bound(socket, ChatChannel(socket.page.chatId), e)
               IN  /\ Len(bound) = 1
                   /\ bound[1].chatId = socket.page.chatId
                   /\ bound[1].owner = socket.page.effect
    ELSE ChatBinds = <<>>

\* An event handed to the client is applied to the list once when Messages
\* shows its conversation, and not at all otherwise.
AppliedOnce ==
    socket'.seen # socket.seen =>
       IF socket.page.mounted /\ socket.page.chatId = Here
       THEN /\ socket'.calls = 1
            /\ messages' = HandleChannelEvent(messages, socket'.last, Here)
       ELSE /\ socket'.calls = 0
            /\ messages' = messages

\* C32: across mount, chatId change, disconnect, reconnect and unmount of
\* Messages, the incoming-message and message_edited handlers are bound as soon
\* as the channel is subscribed to, exactly one of each is bound to the channel
\* of the current conversation, none stays bound after unmount, and a
\* delivered event is applied to the list exactly once.
C32_HandlersBoundOnce == []OneHandlerOfEachKind /\ [][AppliedOnce]_vars

\* Messages came back to the conversation with its third effect, and a new
\* message of the other member was delivered and applied once.
C32_Witness ==
    /\ socket.page.mounted
    /\ socket.page.chatId = Here
    /\ socket.page.effect = MaxEffects
    /\ socket.calls = 1
    /\ socket.last.event = "incoming-message"
    /\ \E k \in 1..Len(messages) : messages[k].id = socket.last.message.id
    /\ Len(messages) = 3

\* ---------------------------------------------------------------------------
\* C39
\* ---------------------------------------------------------------------------

\* The client holds the channel and will have it subscribed: subscribed,
\* asked for, or waiting for the connection to come back
Kept(ps, name) == ps.subs[name] \in {"subscribed", "pending", "idle"}

\* C39: while FriendsList or AllFriendsList is mounted, the friend-notification
\* channel of the user stays subscribed and the new_friend and friend_removed
\* handlers of that component stay bound, whatever the other component on the
\* same channel does in between.
C39_FriendsChannelKept ==
    \A comp \in socket.lists :
       /\ Kept(socket, FriendsChannel)
       /\ \A e \in {"new_friend", "friend_removed"} :
             \E k \in 1..Len(socket.binds) :
                /\ socket.binds[k].channel = "global"
                /\ socket.binds[k].event = e
                /\ socket.binds[k].owner = comp

\* ---------------------------------------------------------------------------
\* C33
\* ---------------------------------------------------------------------------

\* The name, trimmed, is a non-empty string
Named(chat) == chat.name \notin {None, Undefined} /\ trim(chat.name) # ""

\* C33: every persisted chat with three or more members has a non-empty
\* trimmed name, after any sequence of group creations, implicit bootstraps,
\* member additions, member removals and renames.
C33_LargeChatsAreNamed ==
    \A c \in DOMAIN chats :
       Len(chats[c].memberIds) >= 3 => Named(chats[c])

\* A chat of two grew to three members by an addition.
C33_Witness ==
    \E c \in DOMAIN chats :
       /\ Len(chats[c].memberIds) = 3
       /\ Named(chats[c])
       /\ \E ch \in DOMAIN channels : \E k \in 1..Len(channels[ch]) :
             /\ channels[ch][k].event = "member_added"
             /\ channels[ch][k].chat.id = c

\* ---------------------------------------------------------------------------
\* C37
\* ---------------------------------------------------------------------------

\* The stored chats classified DirectMessage whose members are the pair
DirectChatsOf(pair) ==
    {c \in DOMAIN chats :
        DirectMessage(chats[c]) /\ Range(chats[c].memberIds) = pair}

\* C37: for any unordered pair of users at most one stored chat is classified
\* DirectMessage, after any sequence of implicit bootstraps under either order
\* of the two ids, creations with two members and no name, and visits of the
\* chat page.
C37_OneDirectChatPerPair ==
    \A a \in Users, b \in Users :
       a # b => Cardinality(DirectChatsOf({a, b})) <= 1

\* ---------------------------------------------------------------------------
\* C38
\* ---------------------------------------------------------------------------

\* No user id stands twice in the sequence
NoRepeats(ids) == \A j \in DOMAIN ids, k \in DOMAIN ids : ids[j] = ids[k] => j = k

\* C38: memberIds of every stored chat names no user twice, after any sequence
\* of creations, implicit bootstraps, additions and removals.
C38_MembersDistinct ==
    \A c \in DOMAIN chats : NoRepeats(chats[c].memberIds)

\* ---------------------------------------------------------------------------
\* C36
\* ---------------------------------------------------------------------------

\* The edit request in the slot has ended with an error for the client
EditFailed(i) ==
    /\ reqs[i].kind = "edit"
    /\ reqs[i].pc = "done"
    /\ reqs[i].status # 200

\* C36: whenever the edit request answers an error, the log holds the message
\* with the text it had when the request read it, so that the client, which
\* puts that text back, agrees with the store; also when the error is a
\* publish that failed after the write.
C36_FailedEditLeavesStore ==
    \A i \in Slots :
       (EditFailed(i) /\ reqs[i].original # NullMessage)
          => reqs[i].original \in msgLog[reqs[i].chatId]

\* ---------------------------------------------------------------------------
\* C34
\* ---------------------------------------------------------------------------

\* No request is being served
Quiescent == \A i \in Slots : reqs[i].kind = "idle"

\* C34: whenever no request is in flight, a chat is in the chat index of a
\* user exactly when the user is among the members of the stored chat; also
\* after additions, removals and renames on one chat that were served
\* concurrently.
C34_IndexMatchesMembers ==
    Quiescent =>
       \A u \in Users, c \in DOMAIN chats :
          c \in userChats[u] <=> includes(chats[c].memberIds, u)

\* ---------------------------------------------------------------------------
\* Edit requests for the seeded conversation, served two at a time
\* ---------------------------------------------------------------------------

EditRaceTexts == {" yo ", "ok"}
EditRaceIds == {SeedOwn.id, SeedPeer.id}

EditRaceArrive(i) ==
    /\ \E user \in {Me, Peer}, messageId \in EditRaceIds, text \in EditRaceTexts :
          MessageEditArrive(i, user, Here, messageId, text)
    /\ UNCHANGED clientVars

\* The seeded conversation with its two messages, each record shown; no
\* faults.
InitEditRace ==
    /\ chats = set(<<>>, Chat(Here, SENTINEL, <<Me, Peer>>, 0))
    /\ userChats = sadd(sadd([u \in Users |-> {}], Me, Here), Peer, Here)
    /\ friends = FriendsInit
    /\ msgLog = [c \in AllChatIds |->
                   IF c = Here THEN {SeedOwn, SeedPeer} ELSE {}]
    /\ channels = [c \in Channels |-> <<>>]
    /\ reqs = [i \in Slots |-> IdleReq]
    /\ clock = TickMs + 1
    /\ nextId = 2
    /\ commits = 0
    /\ faults = MaxFaults
    /\ messages = <<Shown(SeedPeer, "sent", Undefined),
                    Shown(SeedOwn, "sent", Undefined)>>
    /\ cursor = 0
    /\ dups = 0
    /\ lastDelivered = NoEvent
    /\ responses = {}
    /\ nsent = 0
    /\ sends = {}
    /\ sidebar = Unmounted
    /\ editor = NotEditing
    /\ socket = Unplugged

NextEditRace ==
    \/ \E i \in Slots : EditRaceArrive(i)
    \/ \E i \in Slots : EditStep(i)
    \/ \E i \in Slots : Close(i)
    \/ Deliver

SpecEditRace == InitEditRace /\ [][NextEditRace]_vars

\* ---------------------------------------------------------------------------
\* C35
\* ---------------------------------------------------------------------------

\* C35: whenever no request is in flight the log of a chat holds at most one
\* entry per message id; also after two edit requests for one message that
\* were served concurrently.
C35_OneEntryPerMessageId ==
    Quiescent =>
       \A c \in DOMAIN msgLog : \A m \in msgLog[c], n \in msgLog[c] :
          m.id = n.id => m = n
====
